---- MODULE Spec2Model ----
(***************************************************************************)
(* Company-to-goldstockdata mapping job: supabase/mapping_script.py (the   *)
(* strict variant, variant = 1) and supabase/mapping_script2.py (the       *)
(* extended variant, variant = 2).  The model covers the record cache, the *)
(* parallel fetch phase, the tiered resolution loop, the checkpoint and    *)
(* the output table, over a sequence of runs that share the files.         *)
(*                                                                         *)
(* A Python str is a sequence of one-character strings; None is the value  *)
(* None below, which is no such sequence.                                  *)
(***************************************************************************)
EXTENDS Integers, Sequences, FiniteSets, TLC

None == <<"None">>

(***************************************************************************)
(* Characters and the str / re primitives the normalizers use.             *)
(***************************************************************************)
LowerAlpha == <<"a","b","c","d","e","f","g","h","i","j","k","l","m",
                "n","o","p","q","r","s","t","u","v","w","x","y","z">>
UpperAlpha == <<"A","B","C","D","E","F","G","H","I","J","K","L","M",
                "N","O","P","Q","R","S","T","U","V","W","X","Y","Z">>
DigitChars == <<"0","1","2","3","4","5","6","7","8","9">>

IndexIn(c, alphabet) ==
    IF \E k \in 1..Len(alphabet) : alphabet[k] = c
    THEN CHOOSE k \in 1..Len(alphabet) : alphabet[k] = c
    ELSE 0

IsLower(c) == IndexIn(c, LowerAlpha) > 0
IsUpper(c) == IndexIn(c, UpperAlpha) > 0
IsDigit(c) == IndexIn(c, DigitChars) > 0
IsAlpha(c) == IsLower(c) \/ IsUpper(c)
\* \w of the re module: letters, digits and the underscore
IsWordChar(c) == IsAlpha(c) \/ IsDigit(c) \/ c = "_"
\* \s of the re module (the model's strings hold no other white space)
IsSpace(c) == c = " "

LowerChar(c) == IF IsUpper(c) THEN LowerAlpha[IndexIn(c, UpperAlpha)] ELSE c
UpperChar(c) == IF IsLower(c) THEN UpperAlpha[IndexIn(c, LowerAlpha)] ELSE c

\* str.lower() and str.upper()
Lower(s) == [k \in 1..Len(s) |-> LowerChar(s[k])]
Upper(s) == [k \in 1..Len(s) |-> UpperChar(s[k])]

\* s[a..b] as a Python slice (empty when a > b)
Slice(s, a, b) == IF a > b THEN <<>> ELSE SubSeq(s, a, b)

\* str.startswith / str.endswith
StartsWith(s, p) == Len(p) <= Len(s) /\ Slice(s, 1, Len(p)) = p
EndsWith(s, p) == Len(p) <= Len(s) /\ Slice(s, Len(s) - Len(p) + 1, Len(s)) = p

\* str.strip(): leading and trailing white space removed
Strip(s) ==
    IF \A k \in 1..Len(s) : IsSpace(s[k]) THEN <<>>
    ELSE LET lo == CHOOSE a \in 1..Len(s) :
                       ~IsSpace(s[a]) /\ \A k \in 1..(a - 1) : IsSpace(s[k])
             hi == CHOOSE b \in 1..Len(s) :
                       ~IsSpace(s[b]) /\ \A k \in (b + 1)..Len(s) : IsSpace(s[k])
         IN  Slice(s, lo, hi)

\* re.sub(r'\s+', ' ', s): every run of white space becomes one space
RECURSIVE CollapseSpaces(_)
CollapseSpaces(s) ==
    IF s = <<>> THEN <<>>
    ELSE IF IsSpace(s[1])
         THEN IF Len(s) > 1 /\ IsSpace(s[2])
              THEN CollapseSpaces(Tail(s))
              ELSE <<" ">> \o CollapseSpaces(Tail(s))
         ELSE <<s[1]>> \o CollapseSpaces(Tail(s))

\* re.sub(r'[^\w\s]', ' ', s)
PunctToSpace(s) ==
    [k \in 1..Len(s) |-> IF IsWordChar(s[k]) \/ IsSpace(s[k]) THEN s[k] ELSE " "]

\* re.sub(r'[.\-_]', '', s)
RECURSIVE DropTickerPunct(_)
DropTickerPunct(s) ==
    IF s = <<>> THEN <<>>
    ELSE IF s[1] \in {".", "-", "_"}
         THEN DropTickerPunct(Tail(s))
         ELSE <<s[1]>> \o DropTickerPunct(Tail(s))

\* The number of white-space characters that end s
RECURSIVE TrailingSpaces(_)
TrailingSpaces(s) ==
    IF s = <<>> \/ ~IsSpace(s[Len(s)]) THEN 0
    ELSE 1 + TrailingSpaces(Slice(s, 1, Len(s) - 1))

\* re.sub(r'\s+<word>$', '', s, flags=re.IGNORECASE), and with optDot the
\* pattern r'\s+<word>\.?$': the word at the end of s, with the white space
\* before it, is removed; s is returned unchanged when there is no match.
StripSuffixWord(s, word, optDot) ==
    LET ls   == Lower(s)
        cut  == IF optDot /\ EndsWith(ls, word \o <<".">>) THEN Len(word) + 1
                ELSE IF EndsWith(ls, word) THEN Len(word)
                ELSE 0
        body == Slice(s, 1, Len(s) - cut)
    IN  IF cut = 0 \/ TrailingSpaces(body) = 0 THEN s
        ELSE Slice(body, 1, Len(body) - TrailingSpaces(body))

(***************************************************************************)
(* normalize_ticker                                                        *)
(***************************************************************************)
\* The exchange prefixes and suffixes of the two regular expressions
ExchangePrefixes1 ==
    {<<"C","V","E">>,
     <<"T","S","E">>,
     <<"T","S","X">>,
     <<"T","S","X","V">>,
     <<"C","S","E">>,
     <<"C","N","S","X">>,
     <<"N","Y","S","E">>,
     <<"N","A","S","D","A","Q">>,
     <<"O","T","C">>}
ExchangePrefixes2 == ExchangePrefixes1 \cup {<<"N","E","O">>}
ExchangeSuffixes1 ==
    {<<"V">>,
     <<"T","O">>,
     <<"C","N">>,
     <<"T">>,
     <<"V","N">>,
     <<"W","T">>}
ExchangeSuffixes2 == ExchangeSuffixes1 \cup {<<"C","S","E">>, <<"N","E","O">>}

ExchangePrefixes(v) == IF v = 1 THEN ExchangePrefixes1 ELSE ExchangePrefixes2
ExchangeSuffixes(v) == IF v = 1 THEN ExchangeSuffixes1 ELSE ExchangeSuffixes2

\* re.sub(r'^(CVE|...):', '', t, flags=re.IGNORECASE)
StripExchangePrefix(v, t) ==
    LET hits == {p \in ExchangePrefixes(v) : StartsWith(Upper(t), p \o <<":">>)}
    IN  IF hits = {} THEN t
        ELSE LET p == CHOOSE q \in hits : TRUE
             IN  Slice(t, Len(p) + 2, Len(t))

\* re.sub(r'\.(V|TO|...)$', '', t, flags=re.IGNORECASE)
StripExchangeSuffix(v, t) ==
    LET hits == {x \in ExchangeSuffixes(v) : EndsWith(Upper(t), <<".">> \o x)}
    IN  IF hits = {} THEN t
        ELSE LET x == CHOOSE y \in hits : TRUE
             IN  Slice(t, 1, Len(t) - Len(x) - 1)

\* normalize_ticker of variant v: None for None or the empty string.  The
\* strict variant returns early for a ticker that ends with '.CN'.
normalize_ticker(v, ticker) ==
    IF ticker = None \/ ticker = <<>> THEN None
    ELSE IF v = 1 /\ EndsWith(ticker, <<".","C","N">>)
         THEN Upper(Strip(Slice(ticker, 1, Len(ticker) - 3)))
         ELSE Upper(Strip(DropTickerPunct(
                  StripExchangeSuffix(v, StripExchangePrefix(v, ticker)))))

(***************************************************************************)
(* normalize_name                                                          *)
(***************************************************************************)
\* The suffix patterns, in the order of the list: r'\s+<word>$', with
\* optDot r'\s+<word>\.?$' and with optS r'\s+<word>s?$'.
NameSuffixes1 ==
    <<[word |-> <<"i","n","c">>, optDot |-> TRUE, optS |-> FALSE],
      [word |-> <<"l","t","d">>, optDot |-> TRUE, optS |-> FALSE],
      [word |-> <<"l","i","m","i","t","e","d">>, optDot |-> FALSE, optS |-> FALSE],
      [word |-> <<"c","o","r","p">>, optDot |-> TRUE, optS |-> FALSE],
      [word |-> <<"c","o","r","p","o","r","a","t","i","o","n">>, optDot |-> FALSE, optS |-> FALSE],
      [word |-> <<"p","l","c">>, optDot |-> FALSE, optS |-> FALSE],
      [word |-> <<"l","l","c">>, optDot |-> FALSE, optS |-> FALSE],
      [word |-> <<"s","a">>, optDot |-> FALSE, optS |-> FALSE],
      [word |-> <<"a","g">>, optDot |-> FALSE, optS |-> FALSE],
      [word |-> <<"m","i","n","i","n","g">>, optDot |-> FALSE, optS |-> FALSE],
      [word |-> <<"m","i","n","e","s">>, optDot |-> FALSE, optS |-> FALSE],
      [word |-> <<"r","e","s","o","u","r","c","e","s">>, optDot |-> FALSE, optS |-> FALSE],
      [word |-> <<"m","i","n","e","r","a","l","s">>, optDot |-> FALSE, optS |-> FALSE],
      [word |-> <<"g","o","l","d">>, optDot |-> FALSE, optS |-> FALSE],
      [word |-> <<"s","i","l","v","e","r">>, optDot |-> FALSE, optS |-> FALSE],
      [word |-> <<"m","e","t","a","l","s">>, optDot |-> FALSE, optS |-> FALSE],
      [word |-> <<"e","x","p","l","o","r","a","t","i","o","n">>, optDot |-> FALSE, optS |-> FALSE]>>
NameSuffixes2 == NameSuffixes1 \o
    <<[word |-> <<"v","e","n","t","u","r","e">>, optDot |-> FALSE, optS |-> TRUE],
      [word |-> <<"h","o","l","d","i","n","g">>, optDot |-> FALSE, optS |-> TRUE],
      [word |-> <<"g","r","o","u","p">>, optDot |-> FALSE, optS |-> FALSE],
      [word |-> <<"i","n","t","e","r","n","a","t","i","o","n","a","l">>, optDot |-> FALSE, optS |-> FALSE]>>

\* The list of the variant; and the list without the pattern for "corp", a
\* fault that C19 is to detect
NameSuffixes_without_corp(v) ==
    SelectSeq(IF v = 1 THEN NameSuffixes1 ELSE NameSuffixes2,
              LAMBDA p : p.word # <<"c","o","r","p">>)
NameSuffixes(v) == IF v = 1 THEN NameSuffixes1 ELSE NameSuffixes2

\* One re.sub of the loop over the suffix patterns
StripOneSuffix(name, pat) ==
    IF pat.optS /\ EndsWith(Lower(name), pat.word \o <<"s">>)
    THEN StripSuffixWord(name, pat.word \o <<"s">>, FALSE)
    ELSE StripSuffixWord(name, pat.word, pat.optDot)

\* for suffix in suffixes: name = re.sub(suffix, '', name): one pass over
\* the list, in its order; StripSuffixes(name, pats, k) is name after the
\* first k patterns.
RECURSIVE StripSuffixes(_, _, _)
StripSuffixes(name, pats, k) ==
    IF k = 0 THEN name
    ELSE LET prev == StripSuffixes(name, pats, k - 1)
         IN  IF Len(prev) = 0 THEN prev ELSE StripOneSuffix(prev, pats[k])

\* normalize_name of variant v: '' for None or the empty string
normalize_name(v, name) ==
    IF name = None \/ name = <<>> THEN <<>>
    ELSE Strip(CollapseSpaces(PunctToSpace(
             StripSuffixes(Lower(name), NameSuffixes(v), Len(NameSuffixes(v))))))

(***************************************************************************)
(* extract_company_aliases                                                 *)
(***************************************************************************)
HasChar(s, c) == \E k \in 1..Len(s) : s[k] = c

\* The matches of r'\([^)]+\)' in s from position i on, left to right, as
\* pairs <<position of '(', position of ')'>>
RECURSIVE ParenMatches(_, _)
ParenMatches(s, i) ==
    IF i > Len(s) THEN <<>>
    ELSE IF s[i] = "(" /\ \E q \in (i + 1)..Len(s) : s[q] = ")"
         THEN LET q == CHOOSE r \in (i + 1)..Len(s) :
                           s[r] = ")" /\ \A k \in (i + 1)..(r - 1) : s[k] # ")"
              IN  IF q > i + 1
                  THEN <<<<i, q>>>> \o ParenMatches(s, q + 1)
                  ELSE ParenMatches(s, i + 1)
         ELSE ParenMatches(s, i + 1)

\* re.sub(r'\([^)]+\)', '', s)
RemoveParens(s) ==
    LET ms     == ParenMatches(s, 1)
        inside == {k \in 1..Len(s) :
                      \E j \in 1..Len(ms) : ms[j][1] <= k /\ k <= ms[j][2]}
        marked == [k \in 1..Len(s) |-> <<s[k], k \notin inside>>]
        kept   == SelectSeq(marked, LAMBDA x : x[2])
    IN  [k \in 1..Len(kept) |-> kept[k][1]]

\* re.findall(r'\(([^)]+)\)', s), as a set
ParenContents(s) ==
    LET ms == ParenMatches(s, 1)
    IN  {Slice(s, ms[j][1] + 1, ms[j][2] - 1) : j \in 1..Len(ms)}

\* str.split(): the maximal runs of non-space characters, in order
SplitWords(s) ==
    LET starts == {k \in 1..Len(s) :
                      ~IsSpace(s[k]) /\ (k = 1 \/ IsSpace(s[k - 1]))}
        nth(j) == CHOOSE k \in starts : Cardinality({x \in starts : x < k}) = j - 1
        last(k) == CHOOSE e \in k..Len(s) :
                       /\ \A x \in k..e : ~IsSpace(s[x])
                       /\ (e = Len(s) \/ IsSpace(s[e + 1]))
    IN  [j \in 1..Cardinality(starts) |-> Slice(s, nth(j), last(nth(j)))]

\* sep.join(words)
RECURSIVE Join(_, _)
Join(words, sep) ==
    IF Len(words) = 0 THEN <<>>
    ELSE IF Len(words) = 1 THEN words[1]
         ELSE words[1] \o sep \o Join(Tail(words), sep)

\* s.replace(old, new): the non-overlapping occurrences, left to right
RECURSIVE Replace(_, _, _)
Replace(s, old, new) ==
    IF Len(s) < Len(old) THEN s
    ELSE IF StartsWith(s, old)
         THEN new \o Replace(Slice(s, Len(old) + 1, Len(s)), old, new)
         ELSE <<s[1]>> \o Replace(Tail(s), old, new)

Contains(s, sub) ==
    \E k \in 1..(Len(s) - Len(sub) + 1) : Slice(s, k, k + Len(sub) - 1) = sub

\* The abbreviation: the upper-cased first character of each word; the
\* extended variant keeps only the words that start with a letter.
Abbreviation(v, words) ==
    LET firsts == [j \in 1..Len(words) |-> words[j][1]]
        used   == IF v = 1 THEN firsts ELSE SelectSeq(firsts, IsAlpha)
    IN  Upper(used)

\* extract_company_aliases of variant v, as the set list(set(aliases)) holds
extract_company_aliases(v, name) ==
    LET parens == IF HasChar(name, "(") /\ HasChar(name, ")")
                  THEN (IF Strip(RemoveParens(name)) # <<>>
                        THEN {Strip(RemoveParens(name))} ELSE {})
                       \cup (IF v = 2 THEN ParenContents(name) ELSE {})
                  ELSE {}
        words  == SplitWords(name)
        abbrev == IF Len(words) > 1 /\ Len(Abbreviation(v, words)) > 1
                  THEN {Abbreviation(v, words)} ELSE {}
        amp    == IF HasChar(name, "&")
                  THEN {Replace(name, <<"&">>, <<"a","n","d">>)} ELSE {}
        hasAnd == Contains(IF v = 1 THEN name ELSE Lower(name),
                           <<" ","a","n","d"," ">>)
        andAmp == IF hasAnd
                  THEN {Replace(name, <<" ","a","n","d"," ">>, <<" ","&"," ">>)}
                  ELSE {}
    IN  {name} \cup parens \cup abbrev \cup amp \cup andAmp

(***************************************************************************)
(* fuzzywuzzy: fuzz.token_sort_ratio and process.extractOne                *)
(***************************************************************************)
\* Code-point order of the characters the model uses
CharOrder == <<" ", "&", "(", ")", "-", ".", ":">> \o DigitChars \o UpperAlpha
                 \o <<"_">> \o LowerAlpha
CharRank(c) == IndexIn(c, CharOrder)

\* a < b for Python strings
StrLess(a, b) ==
    \/ Len(a) < Len(b) /\ Slice(b, 1, Len(a)) = a
    \/ \E k \in 1..Len(a) :
           /\ k <= Len(b)
           /\ Slice(a, 1, k - 1) = Slice(b, 1, k - 1)
           /\ CharRank(a[k]) < CharRank(b[k])

\* sorted(tokens)
SortTokens(toks) ==
    LET pos(j) == 1 + Cardinality({i \in 1..Len(toks) : StrLess(toks[i], toks[j])})
                    + Cardinality({i \in 1..(j - 1) : toks[i] = toks[j]})
    IN  [k \in 1..Len(toks) |-> toks[CHOOSE j \in 1..Len(toks) : pos(j) = k]]

\* utils.full_process: non-word characters become spaces, lower case, strip
\* (the pattern \W leaves the underscore in place)
full_process(s) == Strip(Lower(PunctToSpace(s)))

\* fuzz._process_and_sort with full_process=False: the tokens, sorted and
\* joined by one space
process_and_sort(s) == Strip(Join(SortTokens(SplitWords(s)), <<" ">>))

\* The length of a longest common subsequence of a and b.  LcsRow(a, b, i)[j+1]
\* is that length for a[1..i] and b[1..j].
RECURSIVE LcsRow(_, _, _)
LcsRow(a, b, i) ==
    IF i = 0 THEN [j \in 1..(Len(b) + 1) |-> 0]
    ELSE LET prev == LcsRow(a, b, i - 1)
             best(j) == LET hits == {prev[k] + 1 : k \in {x \in 1..j : b[x] = a[i]}}
                            all  == hits \cup {prev[j + 1]}
                        IN  CHOOSE m \in all : \A x \in all : x <= m
         IN  IF prev[1] # 0 THEN prev
             ELSE [j \in 1..(Len(b) + 1) |-> IF j = 1 THEN 0 ELSE best(j - 1)]

LCS(a, b) == LcsRow(a, b, Len(a))[Len(b) + 1]

\* int(round(100 * 2.0 * m / t)): round half to even
RoundRatio(m, t) ==
    LET q == (200 * m) \div t
        r == (200 * m) % t
    IN  IF 2 * r > t THEN q + 1
        ELSE IF 2 * r < t THEN q
        ELSE IF q % 2 = 0 THEN q ELSE q + 1

\* fuzz.ratio: 100 for equal strings, 0 when one is empty, else the
\* similarity 2*M/T of the two strings, in percent
ratio(s1, s2) ==
    IF s1 = s2 THEN 100
    ELSE IF Len(s1) = 0 \/ Len(s2) = 0 THEN 0
    ELSE RoundRatio(LCS(s1, s2), Len(s1) + Len(s2))

\* fuzz.token_sort_ratio on processed strings (full_process=False)
token_sort_ratio(s1, s2) == ratio(process_and_sort(s1), process_and_sort(s2))

\* extractOne returning the last choice of maximal score instead of the
\* first: a fault that C34 is to detect
extractOne_last_maximum(query, choices, cutoff) ==
    LET pq       == full_process(full_process(query))
        score(k) == token_sort_ratio(pq, full_process(full_process(choices[k])))
        scores   == [k \in 1..Len(choices) |-> score(k)]
        ok       == {k \in 1..Len(choices) : scores[k] >= cutoff}
    IN  IF ok = {} THEN [idx |-> 0, score |-> 0]
        ELSE LET best == CHOOSE k \in ok :
                             /\ \A x \in ok : scores[x] <= scores[k]
                             /\ \A x \in ok : x > k => scores[x] < scores[k]
             IN  [idx |-> best, score |-> scores[best]]

\* process.extractOne(query, choices, scorer=fuzz.token_sort_ratio,
\* score_cutoff=cutoff): the first choice of maximal score among those that
\* reach the cutoff, as [idx, score], idx = 0 standing for the result None.
\* idx is the position of the first choice equal to the winning string,
\* which is how both variants look the record up again.
extractOne(query, choices, cutoff) ==
    LET pq       == full_process(full_process(query))
        score(k) == token_sort_ratio(pq, full_process(full_process(choices[k])))
        scores   == [k \in 1..Len(choices) |-> score(k)]
        ok       == {k \in 1..Len(choices) : scores[k] >= cutoff}
    IN  IF ok = {} THEN [idx |-> 0, score |-> 0]
        ELSE LET best == CHOOSE k \in ok :
                             /\ \A x \in ok : scores[x] <= scores[k]
                             /\ \A x \in ok : x < k => scores[x] < scores[k]
                 first == CHOOSE k \in 1..Len(choices) :
                              /\ choices[k] = choices[best]
                              /\ \A x \in 1..(k - 1) : choices[x] # choices[best]
             IN  [idx |-> first, score |-> scores[best]]

(***************************************************************************)
(* Program constants and the inputs of the model                           *)
(***************************************************************************)
\* if len(self.matcher.cache) % 50 == 0: self.matcher.save_cache()
CacheFlushEvery == 50
\* if len(mappings) % 10 == 0  /  if (i + 1) % 10 == 0
CheckpointEvery == 10
\* confidence_score of the exact tiers
TickerConfidence == 100
NameConfidence == 95
\* The floor of the fuzzy tier, and the score from which a fuzzy match
\* counts as matched rather than manual
FuzzyFloor1 == 80
FuzzyFloor2 == 70
FuzzyMatched1 == 90
FuzzyMatched2 == 85
FuzzyFloor(v) == IF v = 1 THEN FuzzyFloor1 ELSE FuzzyFloor2
\* 90 in both variants: a fault that C18 is to detect
FuzzyMatched_90_in_both(v) == FuzzyMatched1
FuzzyMatched(v) == IF v = 1 THEN FuzzyMatched1 ELSE FuzzyMatched2

\* Bounds of the model
MaxId == 2          \* --max-id: the external IDs are 1..MaxId
MaxWorkers == 2     \* --workers
MaxRuns == 2        \* processes started one after the other on the same files
LongLen == 11       \* length of the long input list

Variants == {1, 2}
GoldstockIds == 1..MaxId

\* str(n) for n >= 0
RECURSIVE StrOfInt(_)
StrOfInt(n) ==
    IF n < 10 THEN <<DigitChars[n + 1]>>
    ELSE StrOfInt(n \div 10) \o <<DigitChars[(n % 10) + 1]>>

\* known_mappings of main, keyed by company_id
known_mappings ==
    (8 :> [goldstock_id |-> <<"1">>, goldstock_name |-> <<"A","b","c","o","u","r","t"," ","M","i","n","e","s"," ","I","n","c">>,
           confidence_score |-> 100])
    @@ (10 :> [goldstock_id |-> <<"8">>, goldstock_name |-> <<"A","g","n","i","c","o"," ","E","a","g","l","e"," ","M","i","n","e","s"," ","L","t","d">>,
               confidence_score |-> 100])
    @@ (331 :> [goldstock_id |-> <<"3","7","4">>, goldstock_name |-> <<"P","r","o","b","e"," ","G","o","l","d"," ","I","n","c">>,
                confidence_score |-> 100])
    @@ (48 :> [goldstock_id |-> <<"1","4","7","0">>, goldstock_name |-> <<"A","y","a"," ","G","o","l","d"," ","&"," ","S","i","l","v","e","r"," ","I","n","c",".">>,
               confidence_score |-> 100])
    @@ (313 :> [goldstock_id |-> <<"6","0","5">>, goldstock_name |-> <<"A","u","r","a"," ","M","i","n","e","r","a","l","s"," ","I","n","c",".">>,
                confidence_score |-> 100])

\* Company(company_id, company_name, tsx_code)
Company(id, name, tsx) == [company_id |-> id, company_name |-> name, tsx_code |-> tsx]

\* The contents of companiesIDsTickers.json the model runs on: the empty
\* list, or a list that spans more than one checkpoint period and has
\* companies for every tier.
LongCompany(k) ==
    IF k = 1 THEN Company(10, <<"A","g","n","i","c","o"," ","L","t","d">>, <<"T","S","X",":","A","E","M">>)
    ELSE IF k % 4 = 0 THEN Company(100 + k, <<"D","e","x","o">>, None)
    ELSE IF k % 4 = 1 THEN Company(100 + k, <<"Z","y"," ","C","o","r","p">>, None)
    ELSE IF k % 4 = 2 THEN Company(100 + k, <<"B","o"," ","G","o","l","d">>, <<"C","V","E",":","A","B","C">>)
    ELSE Company(100 + k, <<"D","e","x","a"," ","M","i","n","e","s"," ","L","t","d",".">>, <<"D","X","A",".","T","O">>)
LongList == [k \in 1..LongLen |-> LongCompany(k)]

\* What the site serves for an external ID: the fields the scraper takes
\* from the page (a company_name of None: no selector found a name), or
\* "404".  The HTML extraction itself is not modelled.
Page(name, ticker, exchange) ==
    [status |-> "200", company_name |-> name, ticker |-> ticker, exchange |-> exchange]
NotFound == [status |-> "404"]
Site(id) ==
    IF id = 1 THEN Page(<<"D","e","x","a"," ","C","o","r","p">>, <<"A","B","C",".","V">>, None)
    ELSE IF id = 3 THEN Page(<<"B","o"," ","I","n","c">>, <<"A","B","C",".","V">>, None)
    ELSE IF id = 4 THEN Page(None, None, None)
    ELSE NotFound

(***************************************************************************)
(* The records of the program                                              *)
(***************************************************************************)
\* GoldstockCompany as fetch_company_by_id builds it from a page; the
\* extended variant also keeps the exchange.  asdict() of it is the same
\* record, and so is the JSON object of the cache file.
GoldstockCompany(v, id, page) ==
    IF v = 1
    THEN [goldstock_id |-> StrOfInt(id), company_name |-> page.company_name,
          ticker |-> page.ticker,
          aliases |-> extract_company_aliases(v, page.company_name)]
    ELSE [goldstock_id |-> StrOfInt(id), company_name |-> page.company_name,
          ticker |-> page.ticker, exchange |-> page.exchange,
          aliases |-> extract_company_aliases(v, page.company_name)]

\* Mapping(...): one outcome of the resolution loop
Mapping(c, gid, gname, status, confidence, method) ==
    [company_id |-> c.company_id, company_name |-> c.company_name,
     tsx_code |-> c.tsx_code, goldstock_id |-> gid, goldstock_name |-> gname,
     match_status |-> status, confidence_score |-> confidence,
     match_method |-> method]

\* Python truth of an optional string
Truthy(s) == s # None /\ s # <<>>

(***************************************************************************)
(* perform_matching: the lookup tables and the tiers                       *)
(***************************************************************************)
\* The keys a record is entered under in gs_by_ticker
TickerKeys(v, gs) ==
    IF Truthy(gs.ticker) /\ Truthy(normalize_ticker(v, gs.ticker))
    THEN {normalize_ticker(v, gs.ticker)} ELSE {}

\* The name keys without the test `if normalized`: a fault that C24 is to
\* detect
NameKeys_with_empty(v, gs) ==
    {normalize_name(v, n) : n \in {gs.company_name} \cup gs.aliases}

\* The keys a record is entered under in gs_by_normalized_name
NameKeys(v, gs) ==
    {normalize_name(v, n) : n \in {gs.company_name} \cup gs.aliases} \ {<<>>}

\* gs_by_ticker and gs_by_normalized_name as dicts filled in list order: a
\* key maps to the last record of the list entered under it.  Get returns the
\* position of that record, 0 when the key is absent.
LastWith(gs_list, hit(_)) ==
    LET ks == {k \in 1..Len(gs_list) : hit(gs_list[k])}
    IN  IF ks = {} THEN 0 ELSE CHOOSE k \in ks : \A x \in ks : x <= k

\* gs_by_ticker keeping the first record entered under a key: a fault that
\* C35 is to detect
gs_by_ticker_keeps_first(v, gs_list, key) ==
    LET ks == {k \in 1..Len(gs_list) : key \in TickerKeys(v, gs_list[k])}
    IN  IF ks = {} THEN 0 ELSE CHOOSE k \in ks : \A x \in ks : k <= x

gs_by_ticker(v, gs_list, key) ==
    LastWith(gs_list, LAMBDA gs : key \in TickerKeys(v, gs))

gs_by_normalized_name(v, gs_list, key) ==
    LastWith(gs_list, LAMBDA gs : key \in NameKeys(v, gs))

\* Tier 1: company.company_id in known_mappings
KnownTier(c, known) ==
    LET k == known[c.company_id]
    IN  Mapping(c, k.goldstock_id, k.goldstock_name, "matched",
                k.confidence_score, "known_mapping")

\* Tier 2 applies: the strict variant tests company.tsx_code before it
\* normalizes, the extended variant normalizes first
TickerHit(v, c, gs_list) ==
    IF Truthy(c.tsx_code) /\ Truthy(normalize_ticker(v, c.tsx_code))
    THEN gs_by_ticker(v, gs_list, normalize_ticker(v, c.tsx_code))
    ELSE 0

\* Tier 3 applies
NameHit(v, c, gs_list) ==
    gs_by_normalized_name(v, gs_list, normalize_name(v, c.company_name))

\* Tier 4 with a score that has to exceed the floor: a fault that C17 is to
\* detect
FuzzyHit_above_floor(v, c, gs_list) ==
    LET q       == normalize_name(v, c.company_name)
        choices == [k \in 1..Len(gs_list) |-> normalize_name(v, gs_list[k].company_name)]
        r       == extractOne(q, choices, 0)
    IN  IF q = <<>> \/ Len(gs_list) = 0 THEN [idx |-> 0, score |-> 0]
        ELSE IF r.score > FuzzyFloor(v) THEN r ELSE [idx |-> 0, score |-> 0]

\* Tier 4: extractOne over the normalized names of the records.  The strict
\* variant calls it without a cutoff and tests score >= 80 afterwards; the
\* extended variant passes score_cutoff=70.
FuzzyHit(v, c, gs_list) ==
    LET q       == normalize_name(v, c.company_name)
        choices == [k \in 1..Len(gs_list) |-> normalize_name(v, gs_list[k].company_name)]
    IN  IF q = <<>> \/ Len(gs_list) = 0 THEN [idx |-> 0, score |-> 0]
        ELSE IF v = 1
             THEN LET r == extractOne(q, choices, 0)
                  IN  IF r.score >= FuzzyFloor1 THEN r ELSE [idx |-> 0, score |-> 0]
             ELSE extractOne(q, choices, FuzzyFloor2)

\* No tier produced a result; and the same with the method of the fuzzy
\* tier left in place, a fault that C14 is to detect
Unmatched_with_method(c) == Mapping(c, None, None, "unmatched", 0, "fuzzy_name")
Unmatched(c) == Mapping(c, None, None, "unmatched", 0, "none")

\* The Mapping of a record found by ticker or by normalized name
ExactMatch(c, gs, confidence, method) ==
    Mapping(c, gs.goldstock_id, gs.company_name, "matched", confidence, method)

\* The Mapping of the fuzzy tier for the result f of extractOne
FuzzyMatch(v, c, gs_list, f) ==
    IF f.idx # 0
    THEN Mapping(c, gs_list[f.idx].goldstock_id, gs_list[f.idx].company_name,
                 IF f.score >= FuzzyMatched(v) THEN "matched" ELSE "manual",
                 f.score, "fuzzy_name")
    ELSE Unmatched(c)

\* The tiers with the known mappings after the exact tiers, and with the
\* name before the ticker: faults that C15 and C16 are to detect
Tiers_known_last(v, c, gs_list, known, t, n, f) ==
    IF t # 0 THEN ExactMatch(c, gs_list[t], TickerConfidence, "exact_ticker")
    ELSE IF n # 0 THEN ExactMatch(c, gs_list[n], NameConfidence, "exact_name")
    ELSE IF c.company_id \in DOMAIN known THEN KnownTier(c, known)
    ELSE FuzzyMatch(v, c, gs_list, f)
Tiers_name_first(v, c, gs_list, known, t, n, f) ==
    IF c.company_id \in DOMAIN known THEN KnownTier(c, known)
    ELSE IF n # 0 THEN ExactMatch(c, gs_list[n], NameConfidence, "exact_name")
    ELSE IF t # 0 THEN ExactMatch(c, gs_list[t], TickerConfidence, "exact_ticker")
    ELSE FuzzyMatch(v, c, gs_list, f)

\* The tiers in order, for the lookups t (by ticker), n (by name) and f
\* (fuzzy) of company c
Tiers(v, c, gs_list, known, t, n, f) ==
    IF c.company_id \in DOMAIN known THEN KnownTier(c, known)
    ELSE IF t # 0 THEN ExactMatch(c, gs_list[t], TickerConfidence, "exact_ticker")
    ELSE IF n # 0 THEN ExactMatch(c, gs_list[n], NameConfidence, "exact_name")
    ELSE FuzzyMatch(v, c, gs_list, f)

\* One iteration of the loop of perform_matching for company c: the Mapping
\* it appends.
resolve(v, c, gs_list, known) ==
    Tiers(v, c, gs_list, known, TickerHit(v, c, gs_list), NameHit(v, c, gs_list),
          FuzzyHit(v, c, gs_list))

\* The strict variant leaves the iteration with `continue` in the first
\* three tiers, before the periodic save at the end of the loop body.
SkipsPeriodicSave(v, m) ==
    v = 1 /\ m.match_method \in {"known_mapping", "exact_ticker", "exact_name"}

\* One row of company_mappings.csv: csv.DictWriter writes None as the empty
\* string and a number as str(number); the columns are in fieldnames order.
CsvCell(x) == IF x = None THEN <<>> ELSE x
CsvRow(m) ==
    << StrOfInt(m.company_id), m.company_name, CsvCell(m.tsx_code),
       CsvCell(m.goldstock_id), CsvCell(m.goldstock_name),
       m.match_status, StrOfInt(m.confidence_score), m.match_method >>
CsvRows(ms) == [k \in 1..Len(ms) |-> CsvRow(ms[k])]

(***************************************************************************)
(* State                                                                   *)
(***************************************************************************)
VARIABLES
    variant,              \* 1: mapping_script.py, 2: mapping_script2.py
    jsonFile,             \* JSON_FILE: the list of companies
    cacheFile,            \* CACHE_FILE
    ckptFile,             \* CHECKPOINT_FILE
    outFile,              \* OUTPUT_FILE
    pc,                   \* where the main thread of the process is
    args,                 \* args.resume, args.clear_cache
    interrupted,          \* the global flag
    mainCalls,            \* calls of main() made by the process so far
    cache,                \* matcher.cache
    checkpoint,           \* matcher.checkpoint
    companies,            \* main: companies (after the resume filter)
    futures,              \* fetch_companies_parallel: future_to_id
    goldstock_companies,  \* fetch_companies_parallel: companies / main: goldstock_companies
    mappings,             \* perform_matching: mappings
    i,                    \* perform_matching: companies resolved by the loop
    main_mappings,        \* main: mappings
    saveFrom,             \* save_checkpoint in progress: the call site
    runs,                 \* processes started so far
    prior,                \* the checkpoint as the matcher loaded it
    sigAt,                \* where the main thread was when SIGINT arrived
    everCached,           \* external IDs the cache has held an entry for
    known_mappings_arg,   \* main: known_mappings, as passed to perform_matching
    norm_fn,              \* the normalizer under test, "none" in a run of the program
    norm_calls            \* its argument, followed by the results of its successive calls

vars == << variant, jsonFile, cacheFile, ckptFile, outFile, pc, args,
           interrupted, mainCalls, cache, checkpoint, companies, futures,
           goldstock_companies, mappings, i, main_mappings, saveFrom,
           runs, prior, sigAt, everCached, known_mappings_arg,
           norm_fn, norm_calls >>

files == << cacheFile, ckptFile, outFile >>

\* A file is absent, holds what the last complete write put there, or was
\* opened with mode 'w' (which truncates it) and not written to the end.
Absent == [state |-> "absent"]
Truncated == [state |-> "truncated"]
Written(data) == [state |-> "ok", data |-> data]
Exists(f) == f.state # "absent"

\* The cache dict: external ID (for the key "goldstock_<id>") -> the record
\* as a dict, or null
Null == [null |-> TRUE]
EmptyCache == [k \in {} |-> Null]
CachePut(c, id, val) == [k \in DOMAIN c \cup {id} |-> IF k = id THEN val ELSE c[k]]

EmptyCheckpoint == [processed_ids |-> <<>>, mappings |-> <<>>]

\* load_cache: {} when the file is absent or json.load fails
load_cache(f) == IF f.state = "ok" THEN f.data ELSE EmptyCache

\* load_checkpoint: the empty checkpoint when the file is absent or
\* json.load fails
load_checkpoint(f) == IF f.state = "ok" THEN f.data ELSE EmptyCheckpoint

\* save_checkpoint, the two assignments before the file is opened; and
\* the same without the assignment to processed_ids, a fault that C9 is to
\* detect
save_checkpoint_stale_ids(ckpt, ms) == [ckpt EXCEPT !.mappings = ms]
save_checkpoint_update(ckpt, ms) ==
    [ckpt EXCEPT !.mappings = ms,
                 !.processed_ids = [k \in 1..Len(ms) |-> ms[k].company_id]]

\* if not interrupted and CHECKPOINT_FILE.exists(): os.remove(CHECKPOINT_FILE);
\* and the same without the removal, a fault that C7 is to detect
cleanup_checkpoint_never(intr, f) == f
cleanup_checkpoint(intr, f) == IF ~intr /\ Exists(f) THEN Absent ELSE f

Range(s) == {s[k] : k \in 1..Len(s)}

TerminalPcs == {"done", "returned", "exit0", "exit1", "raised", "killed"}
Alive == pc \notin TerminalPcs \cup {"idle"}

NoFutures == [id \in GoldstockIds |-> [st |-> "none"]]

Init ==
    /\ variant \in Variants
    /\ jsonFile \in {LongList, <<>>}
    /\ cacheFile = Absent
    /\ ckptFile = Absent
    /\ outFile = Absent
    /\ pc = "idle"
    /\ args = [resume |-> FALSE, clear_cache |-> FALSE]
    /\ interrupted = FALSE
    /\ mainCalls = 0
    /\ cache = EmptyCache
    /\ checkpoint = EmptyCheckpoint
    /\ companies = <<>>
    /\ futures = NoFutures
    /\ goldstock_companies = <<>>
    /\ mappings = <<>>
    /\ i = 0
    /\ main_mappings = <<>>
    /\ saveFrom = "none"
    /\ runs = 0
    /\ prior = EmptyCheckpoint
    /\ sigAt = "none"
    /\ everCached = {}
    /\ norm_fn = "none"
    /\ norm_calls = <<>>
    /\ known_mappings_arg = known_mappings

(***************************************************************************)
(* main, up to the fetch phase                                             *)
(***************************************************************************)
\* if args.resume and matcher.checkpoint['processed_ids']: the companies
\* whose company_id is not among the processed ids
resume_filter(a, ckpt, cs) ==
    IF a.resume /\ Len(ckpt.processed_ids) > 0
    THEN SelectSeq(cs, LAMBDA c : c.company_id \notin Range(ckpt.processed_ids))
    ELSE cs

\* main from its first line to the submission of the fetches: --clear-cache
\* removes the cache file (and, in the extended variant, the checkpoint
\* file); the matcher loads both files; an empty company list ends the run;
\* with --resume, matcher.checkpoint['processed_ids'] raises KeyError when
\* the loaded checkpoint has no such key.
MainBegin(a, intr) ==
    LET cacheF == IF a.clear_cache THEN Absent ELSE cacheFile
        ckptF  == IF a.clear_cache /\ variant = 2 THEN Absent ELSE ckptFile
        ckpt   == load_checkpoint(ckptF)
        cs     == jsonFile
    IN  /\ args' = a
        /\ cacheFile' = cacheF
        /\ ckptFile' = ckptF
        /\ cache' = load_cache(cacheF)
        /\ checkpoint' = ckpt
        /\ prior' = ckpt
        /\ everCached' = IF a.clear_cache THEN {} ELSE everCached
        /\ goldstock_companies' = <<>>
        /\ mappings' = <<>>
        /\ i' = 0
        /\ main_mappings' = <<>>
        /\ saveFrom' = "none"
        /\ IF Len(cs) = 0
           THEN /\ pc' = IF variant = 1 THEN "returned" ELSE "exit1"
                /\ companies' = cs
                /\ futures' = NoFutures
           ELSE IF a.resume /\ "processed_ids" \notin DOMAIN ckpt
           THEN /\ pc' = "raised"
                /\ companies' = cs
                /\ futures' = NoFutures
           ELSE /\ companies' = resume_filter(a, ckpt, cs)
                /\ IF variant = 2 /\ intr
                   THEN pc' = "exit0" /\ futures' = NoFutures
                   ELSE /\ pc' = "fetch"
                        /\ futures' = [id \in GoldstockIds |-> [st |-> "pending"]]
        /\ known_mappings_arg' = known_mappings
        /\ UNCHANGED << norm_fn, norm_calls, variant, jsonFile, outFile >>

\* A new process is started on the files the earlier ones left
StartRun(resume, clear) ==
    /\ pc \in TerminalPcs \cup {"idle"}
    /\ runs < MaxRuns
    /\ runs' = runs + 1
    /\ interrupted' = FALSE
    /\ sigAt' = "none"
    /\ mainCalls' = 1
    /\ MainBegin([resume |-> resume, clear_cache |-> clear], FALSE)

\* The second call of main with the flag cleared first: a fault that C37 is
\* to detect
SecondMain_clears_flag ==
    /\ variant = 1
    /\ pc \in {"done", "returned"}
    /\ mainCalls = 1
    /\ mainCalls' = 2
    /\ interrupted' = FALSE
    /\ MainBegin(args, FALSE)
    /\ UNCHANGED << runs, sigAt >>

\* mapping_script.py ends with a second copy of its definitions and a second
\* `if __name__ == "__main__": main()`: after main returns, the same process
\* calls main once more, with the same arguments and the flag as it is.
SecondMain ==
    /\ variant = 1
    /\ pc \in {"done", "returned"}
    /\ mainCalls = 1
    /\ mainCalls' = 2
    /\ MainBegin(args, interrupted)
    /\ UNCHANGED << runs, interrupted, sigAt >>

(***************************************************************************)
(* The fetch phase: fetch_company_by_id in the workers,                    *)
(* fetch_companies_parallel in the main thread                             *)
(***************************************************************************)
Pending == {id \in GoldstockIds : futures[id].st = "pending"}
Running == {id \in GoldstockIds : futures[id].st = "running"}
FetchPcs == {"fetch", "fetch_exit", "fetch_unwind"}

\* fetch_company_by_id without the look-up in the cache: every call goes to
\* the network.  A fault that C31 is to detect.
WorkerStart_without_lookup ==
    /\ pc \in FetchPcs
    /\ Pending # {}
    /\ Cardinality(Running) < MaxWorkers
    /\ LET id == CHOOSE x \in Pending : \A y \in Pending : x <= y
       IN  futures' = [futures EXCEPT ![id] = [st |-> "running"]]
    /\ UNCHANGED << norm_fn, norm_calls, variant, jsonFile, known_mappings_arg, files,
                    pc, args, interrupted, mainCalls, cache, checkpoint, companies,
                    goldstock_companies, mappings, i, main_mappings, saveFrom,
                    runs, prior, sigAt, everCached >>

\* A worker takes the next fetch from the queue and runs fetch_company_by_id
\* up to the network call: a key that is in the cache is answered from it
\* (the cached record, or None for a null entry).
WorkerStart ==
    /\ pc \in FetchPcs
    /\ Pending # {}
    /\ Cardinality(Running) < MaxWorkers
    /\ LET id == CHOOSE x \in Pending : \A y \in Pending : x <= y
       IN  futures' = [futures EXCEPT ![id] =
                          IF id \in DOMAIN cache
                          THEN [st |-> "done", result |-> cache[id]]
                          ELSE [st |-> "running"]]
    /\ UNCHANGED << norm_fn, norm_calls, variant, jsonFile, known_mappings_arg, files, pc, args, interrupted, mainCalls,
                    cache, checkpoint, companies, goldstock_companies, mappings,
                    i, main_mappings, saveFrom, runs, prior, sigAt, everCached >>

\* save_cache when the insert brought the cache to a multiple of 50 entries
FlushIfDue(c, f) ==
    IF Cardinality(DOMAIN c) % CacheFlushEvery = 0 THEN Written(c) ELSE f

\* fetch_company_by_id from the network call on.  ok: the request and the
\* parsing raised nothing (a RequestException, a timeout, the HTTPError of
\* raise_for_status, or any other exception, is logged and None returned).
\* A 404 is cached as null (the extended variant then flushes when due); a
\* page without a company name is cached as null and flushed when due; a
\* page with a name is parsed, cached and flushed when due.  The first
\* definition caches null for a failed request as well, a fault that C12 is
\* to detect.
fetch_company_by_id_caches_failure(v, id, ok) ==
    IF ~ok THEN [cached |-> TRUE, result |-> Null, flush |-> FALSE]
    ELSE IF Site(id).status = "404"
    THEN [cached |-> TRUE, result |-> Null, flush |-> v = 2]
    ELSE IF Site(id).company_name = None
    THEN [cached |-> TRUE, result |-> Null, flush |-> TRUE]
    ELSE [cached |-> TRUE, result |-> GoldstockCompany(v, id, Site(id)),
          flush |-> TRUE]
fetch_company_by_id(v, id, ok) ==
    IF ~ok THEN [cached |-> FALSE, result |-> Null, flush |-> FALSE]
    ELSE IF Site(id).status = "404"
    THEN [cached |-> TRUE, result |-> Null, flush |-> v = 2]
    ELSE IF Site(id).company_name = None
    THEN [cached |-> TRUE, result |-> Null, flush |-> TRUE]
    ELSE [cached |-> TRUE, result |-> GoldstockCompany(v, id, Site(id)),
          flush |-> TRUE]

\* The effect of a fetch that returned r on the future, the cache and the
\* cache file
FetchReturns(id, r) ==
    /\ futures' = [futures EXCEPT ![id] = [st |-> "done", result |-> r.result]]
    /\ IF r.cached
       THEN /\ cache' = CachePut(cache, id, r.result)
            /\ cacheFile' = IF r.flush THEN FlushIfDue(cache', cacheFile)
                            ELSE cacheFile
            /\ everCached' = everCached \cup {id}
       ELSE UNCHANGED << cache, cacheFile, everCached >>

\* The network call of a running fetch returns
WorkerFinish(id, ok) ==
    /\ pc \in FetchPcs
    /\ futures[id].st = "running"
    /\ FetchReturns(id, fetch_company_by_id(variant, id, ok))
    /\ UNCHANGED << norm_fn, norm_calls, variant, jsonFile, known_mappings_arg, ckptFile, outFile, pc, args, interrupted,
                    mainCalls, checkpoint, companies, goldstock_companies,
                    mappings, i, main_mappings, saveFrom, runs, prior, sigAt >>

\* One turn of `for future in as_completed(future_to_id)`: with the flag set
\* the executor is shut down (the extended variant cancels the queued
\* fetches) and the loop is left; otherwise a record is appended.
Collect(id) ==
    /\ pc = "fetch"
    /\ futures[id].st = "done"
    /\ IF interrupted
       THEN /\ pc' = "fetch_exit"
            /\ futures' = IF variant = 2
                          THEN [x \in GoldstockIds |->
                                   IF futures[x].st = "pending"
                                   THEN [st |-> "cancelled"] ELSE futures[x]]
                          ELSE futures
            /\ UNCHANGED goldstock_companies
       ELSE /\ futures' = [futures EXCEPT ![id] = [st |-> "collected"]]
            /\ goldstock_companies' =
                   IF futures[id].result = Null THEN goldstock_companies
                   ELSE Append(goldstock_companies, futures[id].result)
            /\ pc' = IF \A x \in GoldstockIds \ {id} : futures[x].st = "collected"
                     THEN "fetched" ELSE "fetch"
    /\ UNCHANGED << norm_fn, norm_calls, variant, jsonFile, known_mappings_arg, files, args, interrupted, mainCalls, cache,
                    checkpoint, companies, mappings, i, main_mappings, saveFrom,
                    runs, prior, sigAt, everCached >>

\* Leaving the `with ThreadPoolExecutor(...)` block waits for the fetches
\* that were started or are still queued; after SystemExit the process then
\* exits.
ExecutorExit ==
    /\ pc \in {"fetch_exit", "fetch_unwind"}
    /\ Pending = {} /\ Running = {}
    /\ pc' = IF pc = "fetch_exit" THEN "fetched" ELSE "exit0"
    /\ UNCHANGED << norm_fn, norm_calls, variant, jsonFile, known_mappings_arg, files, args, interrupted, mainCalls, cache,
                    checkpoint, companies, futures, goldstock_companies, mappings,
                    i, main_mappings, saveFrom, runs, prior, sigAt, everCached >>

(***************************************************************************)
(* main after the fetch phase, and perform_matching                        *)
(***************************************************************************)
\* main after the fetch phase without the test `if not goldstock_companies`:
\* a fault that C21 is to detect
AfterFetch_without_check ==
    /\ pc = "fetched"
    /\ pc' = IF variant = 2 /\ interrupted THEN "exit0" ELSE "match"
    /\ mappings' = <<>>
    /\ i' = 0
    /\ UNCHANGED << norm_fn, norm_calls, variant, jsonFile, known_mappings_arg, files, args, interrupted,
                    mainCalls, cache, checkpoint, companies, futures,
                    goldstock_companies, main_mappings, saveFrom, runs, prior,
                    sigAt, everCached >>

\* main between fetch_companies_parallel and the loop of perform_matching
AfterFetch ==
    /\ pc = "fetched"
    /\ IF variant = 2 /\ interrupted THEN pc' = "exit0"
       ELSE IF Len(goldstock_companies) = 0
            THEN pc' = IF variant = 1 THEN "returned" ELSE "exit1"
            ELSE pc' = "match"
    /\ mappings' = <<>>
    /\ i' = 0
    /\ UNCHANGED << norm_fn, norm_calls, variant, jsonFile, known_mappings_arg, files, args, interrupted, mainCalls, cache,
                    checkpoint, companies, futures, goldstock_companies,
                    main_mappings, saveFrom, runs, prior, sigAt, everCached >>

\* save_checkpoint up to and including open(CHECKPOINT_FILE, 'w'), which
\* truncates the file; json.dump follows in SaveCheckpointDump
BeginSaveCheckpoint(ms, from) ==
    /\ checkpoint' = save_checkpoint_update(checkpoint, ms)
    /\ ckptFile' = Truncated
    /\ saveFrom' = from
    /\ pc' = "ckpt_dump"

\* The periodic save is due after this iteration.  i is the index of the
\* iteration, counted from 0.
PeriodicSaveDue(v, m, ms, idx, n) ==
    IF v = 1
    THEN ~SkipsPeriodicSave(v, m) /\ Len(ms) % CheckpointEvery = 0
    ELSE (idx + 1) % CheckpointEvery = 0 \/ idx = n - 1

\* The end of an iteration that appended m and so made the list ms
EndOfIteration(m, ms) ==
    /\ mappings' = ms
    /\ i' = i + 1
    /\ IF PeriodicSaveDue(variant, m, ms, i, Len(companies))
       THEN /\ outFile' = IF variant = 2 THEN Written(CsvRows(ms)) ELSE outFile
            /\ BeginSaveCheckpoint(ms, "periodic")
       ELSE UNCHANGED << outFile, ckptFile, checkpoint, saveFrom, pc >>

\* An iteration that goes on to the next company without an outcome: a
\* fault that C36 is to detect
Iteration_without_outcome(m) == EndOfIteration(m, mappings)

\* An iteration of the loop for the Mapping m of the company at index i
Iteration(m) == EndOfIteration(m, Append(mappings, m))

\* One turn of the loop of perform_matching, or the end of the loop.  The
\* strict variant saves the table and the checkpoint after the loop; the
\* extended variant saves inside the loop and returns.
ResolveStep ==
    /\ pc = "match"
    /\ IF interrupted \/ i = Len(companies)
       THEN IF variant = 1
            THEN /\ outFile' = Written(CsvRows(mappings))
                 /\ BeginSaveCheckpoint(mappings, "final")
                 /\ UNCHANGED << mappings, i >>
            ELSE /\ pc' = "matched"
                 /\ UNCHANGED << outFile, ckptFile, checkpoint, saveFrom, mappings, i >>
       ELSE Iteration(resolve(variant, companies[i + 1], goldstock_companies,
                              known_mappings_arg))
    /\ UNCHANGED << norm_fn, norm_calls, variant, jsonFile, known_mappings_arg, cacheFile, args, interrupted, mainCalls,
                    cache, companies, futures, goldstock_companies, main_mappings,
                    runs, prior, sigAt, everCached >>

\* json.dump(self.checkpoint, f) completes and the caller goes on: the
\* strict variant writes the table after a periodic save and returns from
\* perform_matching after the final one; main of the extended variant goes
\* on to matcher.save_cache().
SaveCheckpointDump ==
    /\ pc = "ckpt_dump"
    /\ ckptFile' = Written(checkpoint)
    /\ saveFrom' = "none"
    /\ pc' = IF saveFrom = "periodic" THEN "match"
             ELSE IF saveFrom = "final" THEN "matched"
             ELSE "logos"
    /\ outFile' = IF variant = 1 /\ saveFrom = "periodic"
                  THEN Written(CsvRows(mappings)) ELSE outFile
    /\ cacheFile' = IF saveFrom = "main" THEN Written(cache) ELSE cacheFile
    /\ UNCHANGED << norm_fn, norm_calls, variant, jsonFile, known_mappings_arg, args, interrupted, mainCalls, cache,
                    checkpoint, companies, futures, goldstock_companies, mappings,
                    i, main_mappings, runs, prior, sigAt, everCached >>

\* The end of main: the summary divides by len(mappings); then the
\* checkpoint file is removed unless the flag is set.
Summary(ms) ==
    IF Len(ms) = 0
    THEN pc' = "raised" /\ UNCHANGED ckptFile
    ELSE pc' = "done" /\ ckptFile' = cleanup_checkpoint(interrupted, ckptFile)

\* main after perform_matching: the mappings of the checkpoint are put in
\* front when resuming, and the table is written; the strict variant ends
\* with the summary, the extended variant saves checkpoint and cache first.
AfterMatch ==
    /\ pc = "matched"
    /\ IF variant = 2 /\ interrupted
       THEN /\ pc' = "exit0"
            /\ UNCHANGED << outFile, ckptFile, checkpoint, saveFrom, main_mappings >>
       ELSE LET merged == IF args.resume /\ Len(checkpoint.mappings) > 0
                          THEN checkpoint.mappings \o mappings
                          ELSE mappings
            IN  /\ main_mappings' = merged
                /\ outFile' = Written(CsvRows(merged))
                /\ IF variant = 1
                   THEN Summary(merged) /\ UNCHANGED << checkpoint, saveFrom >>
                   ELSE BeginSaveCheckpoint(merged, "main")
    /\ UNCHANGED << norm_fn, norm_calls, variant, jsonFile, known_mappings_arg, cacheFile, args, interrupted, mainCalls,
                    cache, companies, futures, goldstock_companies, mappings, i,
                    runs, prior, sigAt, everCached >>

\* The extended variant: the logo checks are over, summary and clean-up
Finish ==
    /\ pc = "logos"
    /\ Summary(main_mappings)
    /\ UNCHANGED << norm_fn, norm_calls, variant, jsonFile, known_mappings_arg, cacheFile, outFile, args, interrupted,
                    mainCalls, cache, checkpoint, companies, futures,
                    goldstock_companies, mappings, i, main_mappings, saveFrom,
                    runs, prior, sigAt, everCached >>

(***************************************************************************)
(* SIGINT and the death of the process                                     *)
(***************************************************************************)
\* verify_logo runs for a matched mapping with a goldstock_id; its bare
\* `except:` catches the SystemExit of the handler
LogoCallPossible ==
    \E k \in 1..Len(main_mappings) :
        main_mappings[k].goldstock_id # None /\ main_mappings[k].match_status = "matched"

\* signal_handler.  The strict variant sets the flag.  The extended variant
\* sets it and calls sys.exit(0): SystemExit unwinds the main thread from
\* where it is (through the `with` of the executor in the fetch phase,
\* through the `with open` of save_checkpoint, which leaves the file as far
\* as it was written), unless verify_logo swallows it.
Interrupt(swallowed) ==
    /\ Alive
    /\ ~interrupted
    /\ interrupted' = TRUE
    /\ sigAt' = pc
    /\ IF variant = 1
       THEN ~swallowed /\ pc' = pc
       ELSE IF swallowed
            THEN pc = "logos" /\ LogoCallPossible /\ pc' = pc
            ELSE pc' = IF pc = "fetch" THEN "fetch_unwind" ELSE "exit0"
    /\ UNCHANGED << norm_fn, norm_calls, variant, jsonFile, known_mappings_arg, files, args, mainCalls, cache, checkpoint,
                    companies, futures, goldstock_companies, mappings, i,
                    main_mappings, saveFrom, runs, prior, everCached >>

\* The process dies (SIGKILL, power loss): the files stay as they are, and
\* the cache entries that were not flushed are gone
Kill ==
    /\ Alive
    /\ pc' = "killed"
    /\ everCached' = DOMAIN load_cache(cacheFile)
    /\ UNCHANGED << norm_fn, norm_calls, variant, jsonFile, known_mappings_arg, files, args, interrupted, mainCalls, cache,
                    checkpoint, companies, futures, goldstock_companies, mappings,
                    i, main_mappings, saveFrom, runs, prior, sigAt >>

Next ==
    \/ \E r \in BOOLEAN, c \in BOOLEAN : StartRun(r, c)
    \/ SecondMain
    \/ WorkerStart
    \/ \E id \in GoldstockIds, ok \in BOOLEAN : WorkerFinish(id, ok)
    \/ \E id \in GoldstockIds : Collect(id)
    \/ ExecutorExit
    \/ AfterFetch
    \/ ResolveStep
    \/ SaveCheckpointDump
    \/ AfterMatch
    \/ Finish
    \/ \E s \in BOOLEAN : Interrupt(s)
    \/ Kill

Spec == Init /\ [][Next]_vars

\* The steps of the process itself, the loop of perform_matching apart.
\* The interpreter runs the next statement of main, the pool runs its
\* threads, and every fetch call returns: a step of the process that stays
\* possible is taken.  Signals arrive or not; the process is not killed
\* from outside.
ProgramStep ==
    \/ SecondMain
    \/ WorkerStart
    \/ \E id \in GoldstockIds, ok \in BOOLEAN : WorkerFinish(id, ok)
    \/ \E id \in GoldstockIds : Collect(id)
    \/ ExecutorExit
    \/ AfterFetch
    \/ SaveCheckpointDump
    \/ AfterMatch
    \/ Finish
NextLive ==
    \/ \E r \in BOOLEAN, c \in BOOLEAN : StartRun(r, c)
    \/ ProgramStep
    \/ ResolveStep
    \/ \E s \in BOOLEAN : Interrupt(s)

\* Weak fairness of the steps of the process.  For ResolveStep it is
\* written out: the step is possible exactly when pc = "match".
SpecLive ==
    /\ Init /\ [][NextLive]_vars
    /\ WF_vars(ProgramStep)
    /\ ([]<>(pc # "match") \/ []<><<ResolveStep>>_vars)

(***************************************************************************)
(* perform_matching on its own                                             *)
(***************************************************************************)
\* A second specification calls perform_matching on arguments drawn from
\* bounded sets: one company, a list of up to MaxRecs records, and a table
\* of known mappings.  The companies: one with a known mapping whose ticker
\* is also in the ticker index, one per exact tier, one whose ticker and
\* name hit different records, names at several fuzzy distances from the
\* records, and names that normalize to the empty string.
MaxRecs == 2

MatchCompanies ==
    << Company(10, <<"B","o"," ","G","o","l","d">>, <<"C","V","E",":","A","B","C">>),
       Company(21, <<"B","o"," ","G","o","l","d">>, <<"C","V","E",":","A","B","C">>),
       Company(22, <<"D","e","x","a"," ","M","i","n","e","s"," ","L","t","d",".">>, <<"D","X","A",".","T","O">>),
       Company(23, <<"D","e","x","a"," ","L","t","d">>, <<"C","V","E",":","X","Y","Z">>),
       Company(24, <<"D","e","x","o">>, None),
       Company(25, <<"D","e","x","a","b","c">>, None),
       Company(26, <<"D","e","x">>, None),
       Company(27, <<"B","o","n","a","n","z","a","s">>, None),
       Company(28, <<"Z","y"," ","C","o","r","p">>, None),
       Company(29, <<"P","r","o","b","e"," ","G","o","l","d"," ","I","n","c",".">>, None),
       Company(30, <<"B","o","n","a","n","z","a","r","i","x">>, <<>>),
       Company(31, <<".">>, <<"C","V","E",":","A","B","C">>),
       Company(32, <<".">>, None),
       Company(33, <<"D","e">>, None),
       Company(34, <<"B","o","n","a","n","z","o","x","u","a">>, None) >>

\* The records, as fetch_company_by_id builds them from pages
MatchRecords(v) ==
    << GoldstockCompany(v, 1, Site(1)),
       GoldstockCompany(v, 5, Page(<<"B","o","n","a","n","z","a"," ","I","n","c">>, <<"X","Y","Z",".","V">>, None)),
       GoldstockCompany(v, 6, Page(<<"P","r","o","b","e"," ","G","o","l","d"," ","C","o","r","p">>, None, None)),
       GoldstockCompany(v, 7, Page(<<"B","o","n","a","n","z","a","r","i","a">>, None, None)) >>

\* The lists of 1..MaxRecs different records
RecordLists ==
    UNION {{s \in [1..n -> 1..4] : \A a, b \in 1..n : a # b => s[a] # s[b]}
              : n \in 1..MaxRecs}

\* The table of main, the empty table, and a table whose entry carries a
\* confidence_score of 0
ZeroConfidenceTable ==
    (10 :> [goldstock_id |-> <<"8">>, goldstock_name |-> <<"A","g","n","i","c","o"," ","E","a","g","l","e"," ","M","i","n","e","s"," ","L","t","d">>,
            confidence_score |-> 0])
MatchTables == {known_mappings, <<>>, ZeroConfidenceTable}

InitMatch ==
    /\ variant \in Variants
    /\ \E e \in 1..Len(MatchCompanies) : companies = <<MatchCompanies[e]>>
    /\ \E s \in RecordLists :
          goldstock_companies = [k \in 1..Len(s) |-> MatchRecords(variant)[s[k]]]
    /\ known_mappings_arg \in MatchTables
    /\ jsonFile = companies
    /\ cacheFile = Absent
    /\ ckptFile = Absent
    /\ outFile = Absent
    /\ pc = "match"
    /\ args = [resume |-> FALSE, clear_cache |-> FALSE]
    /\ interrupted = FALSE
    /\ mainCalls = 1
    /\ cache = EmptyCache
    /\ checkpoint = EmptyCheckpoint
    /\ futures = NoFutures
    /\ mappings = <<>>
    /\ i = 0
    /\ main_mappings = <<>>
    /\ saveFrom = "none"
    /\ runs = 1
    /\ prior = EmptyCheckpoint
    /\ sigAt = "none"
    /\ everCached = {}
    /\ norm_fn = "none"
    /\ norm_calls = <<>>

NextMatch == ResolveStep \/ SaveCheckpointDump

SpecMatch == InitMatch /\ [][NextMatch]_vars

(***************************************************************************)
(* The start of a run on files of any kind                                 *)
(***************************************************************************)
\* A third specification starts runs on a cache file and a checkpoint file
\* that are absent, not parseable (Truncated: json.load raises), well
\* formed, or, for the checkpoint, parseable without being a checkpoint:
\* the JSON object {"mappings": []}.
CheckpointWithoutIds == [mappings |-> <<>>]
SomeCache == CachePut(EmptyCache, MaxId, Null)
SomeCheckpoint == save_checkpoint_update(EmptyCheckpoint, <<Unmatched(LongCompany(2))>>)

InitLoad ==
    /\ variant \in Variants
    /\ jsonFile \in {LongList, <<>>}
    /\ cacheFile \in {Absent, Truncated, Written(EmptyCache), Written(SomeCache)}
    /\ ckptFile \in {Absent, Truncated, Written(EmptyCheckpoint),
                     Written(SomeCheckpoint), Written(CheckpointWithoutIds)}
    /\ outFile = Absent
    /\ pc = "idle"
    /\ args = [resume |-> FALSE, clear_cache |-> FALSE]
    /\ interrupted = FALSE
    /\ mainCalls = 0
    /\ cache = EmptyCache
    /\ checkpoint = EmptyCheckpoint
    /\ companies = <<>>
    /\ futures = NoFutures
    /\ goldstock_companies = <<>>
    /\ mappings = <<>>
    /\ i = 0
    /\ main_mappings = <<>>
    /\ saveFrom = "none"
    /\ runs = 0
    /\ prior = EmptyCheckpoint
    /\ sigAt = "none"
    /\ everCached = {}
    /\ norm_fn = "none"
    /\ norm_calls = <<>>
    /\ known_mappings_arg = known_mappings

NextLoad == \E r \in BOOLEAN, c \in BOOLEAN : StartRun(r, c)

SpecLoad == InitLoad /\ [][NextLoad]_vars

(***************************************************************************)
(* The resolution phase when a write of the checkpoint file fails          *)
(***************************************************************************)
\* json.dump in save_checkpoint raises (OSError: no space left, say) after
\* open(CHECKPOINT_FILE, 'w') has truncated the file.  save_checkpoint of the
\* strict variant has no try: the exception leaves perform_matching and
\* main.  save_checkpoint of the extended variant catches Exception and
\* returns, and the caller goes on as after a write that succeeded.
SaveCheckpointFails ==
    /\ pc = "ckpt_dump"
    /\ saveFrom' = "none"
    /\ pc' = IF variant = 1 THEN "raised"
             ELSE IF saveFrom = "periodic" THEN "match"
             ELSE "logos"
    /\ cacheFile' = IF variant = 2 /\ saveFrom = "main" THEN Written(cache) ELSE cacheFile
    /\ UNCHANGED << norm_fn, norm_calls, variant, jsonFile, known_mappings_arg, ckptFile, outFile, args,
                    interrupted, mainCalls, cache, checkpoint, companies, futures,
                    goldstock_companies, mappings, i, main_mappings, runs, prior,
                    sigAt, everCached >>

\* perform_matching and the rest of main on the first n companies of the
\* long list and the records the site serves
InitWrite ==
    /\ variant \in Variants
    /\ \E n \in 1..LongLen : companies = SubSeq(LongList, 1, n)
    /\ \E s \in RecordLists :
          goldstock_companies = [k \in 1..Len(s) |-> MatchRecords(variant)[s[k]]]
    /\ known_mappings_arg = known_mappings
    /\ jsonFile = companies
    /\ cacheFile = Absent
    /\ ckptFile = Absent
    /\ outFile = Absent
    /\ pc = "match"
    /\ args = [resume |-> FALSE, clear_cache |-> FALSE]
    /\ interrupted = FALSE
    /\ mainCalls = 1
    /\ cache = EmptyCache
    /\ checkpoint = EmptyCheckpoint
    /\ futures = NoFutures
    /\ mappings = <<>>
    /\ i = 0
    /\ main_mappings = <<>>
    /\ saveFrom = "none"
    /\ runs = 1
    /\ prior = EmptyCheckpoint
    /\ sigAt = "none"
    /\ everCached = {}
    /\ norm_fn = "none"
    /\ norm_calls = <<>>

NextWrite ==
    \/ ResolveStep
    \/ SaveCheckpointDump
    \/ SaveCheckpointFails
    \/ AfterMatch
    \/ Finish

SpecWrite == InitWrite /\ [][NextWrite]_vars

(***************************************************************************)
(* The lookup tables of perform_matching on records of any kind            *)
(***************************************************************************)
\* Records whose ticker or name normalizes to the empty string, records
\* with several aliases, and records that share a ticker key and a name key
IndexRecords(v) ==
    << GoldstockCompany(v, 8, Page(<<".">>, <<".","V">>, None)),
       GoldstockCompany(v, 9, Page(<<"B","o"," ","(","X",")">>, <<"A",".","C","N">>, None)),
       GoldstockCompany(v, 11, Page(<<"B","o">>, <<"A",".","V">>, None)),
       MatchRecords(v)[1],
       MatchRecords(v)[3] >>
IndexLists ==
    {<<a>> : a \in 1..5} \cup {s \in {<<a, b>> : a, b \in 1..5} : s[1] # s[2]}
IndexCompanies ==
    << MatchCompanies[1], MatchCompanies[3], MatchCompanies[5],
       Company(35, <<"Z","y">>, <<"A",".","T","O">>) >>

InitIndex ==
    /\ variant \in Variants
    /\ \E e \in 1..Len(IndexCompanies) : companies = <<IndexCompanies[e]>>
    /\ \E s \in IndexLists :
          goldstock_companies = [k \in 1..Len(s) |-> IndexRecords(variant)[s[k]]]
    /\ known_mappings_arg = <<>>
    /\ jsonFile = companies
    /\ cacheFile = Absent
    /\ ckptFile = Absent
    /\ outFile = Absent
    /\ pc = "match"
    /\ args = [resume |-> FALSE, clear_cache |-> FALSE]
    /\ interrupted = FALSE
    /\ mainCalls = 1
    /\ cache = EmptyCache
    /\ checkpoint = EmptyCheckpoint
    /\ futures = NoFutures
    /\ mappings = <<>>
    /\ i = 0
    /\ main_mappings = <<>>
    /\ saveFrom = "none"
    /\ runs = 1
    /\ prior = EmptyCheckpoint
    /\ sigAt = "none"
    /\ everCached = {}
    /\ norm_fn = "none"
    /\ norm_calls = <<>>

SpecIndex == InitIndex /\ [][NextMatch]_vars

\* Records that tie in the fuzzy tier: two with the same normalized name
\* (one with a ticker, one without) and two with different names at the
\* same distance from the company names below
TieRecords(v) ==
    << MatchRecords(v)[2],
       GoldstockCompany(v, 12, Page(<<"B","o","n","a","n","z","a"," ","L","t","d">>, None, None)),
       GoldstockCompany(v, 13, Page(<<"B","o","n","a","n","z","a","t">>, None, None)),
       GoldstockCompany(v, 14, Page(<<"B","o","n","a","n","z","a","r">>, <<"Q",".","V">>, None)) >>
TieLists ==
    UNION {{s \in [1..n -> 1..4] : \A a, b \in 1..n : a # b => s[a] # s[b]}
              : n \in 2..3}
TieCompanies == <<MatchCompanies[8], MatchCompanies[11], MatchCompanies[15]>>

InitTie ==
    /\ variant \in Variants
    /\ \E e \in 1..Len(TieCompanies) : companies = <<TieCompanies[e]>>
    /\ \E s \in TieLists :
          goldstock_companies = [k \in 1..Len(s) |-> TieRecords(variant)[s[k]]]
    /\ known_mappings_arg = <<>>
    /\ jsonFile = companies
    /\ cacheFile = Absent
    /\ ckptFile = Absent
    /\ outFile = Absent
    /\ pc = "match"
    /\ args = [resume |-> FALSE, clear_cache |-> FALSE]
    /\ interrupted = FALSE
    /\ mainCalls = 1
    /\ cache = EmptyCache
    /\ checkpoint = EmptyCheckpoint
    /\ futures = NoFutures
    /\ mappings = <<>>
    /\ i = 0
    /\ main_mappings = <<>>
    /\ saveFrom = "none"
    /\ runs = 1
    /\ prior = EmptyCheckpoint
    /\ sigAt = "none"
    /\ everCached = {}
    /\ norm_fn = "none"
    /\ norm_calls = <<>>

SpecTie == InitTie /\ [][NextMatch]_vars

\* The key sets of the two dicts that perform_matching builds
TickerIndexKeys == UNION {TickerKeys(variant, goldstock_companies[k]) :
                             k \in 1..Len(goldstock_companies)}
NameIndexKeys == UNION {NameKeys(variant, goldstock_companies[k]) :
                           k \in 1..Len(goldstock_companies)}

(***************************************************************************)
(* The normalizers as functions: each applied to an input, then to its own *)
(* result                                                                  *)
(***************************************************************************)
\* Tickers put together from exchange prefixes, a base and exchange
\* suffixes, and names put together from a base, suffix words and
\* punctuation; None and the empty string are among both.
TickerInputs ==
    LET P == {<<>>, <<"T","S","X",":">>, <<"c","v","e",":">>, <<" ">>}
        B == {<<>>, <<"A">>, <<"a","b">>}
        S == {<<>>, <<".","V">>, <<".","C","N">>, <<".","t","o">>, <<"-">>}
    IN  {None} \cup {p1 \o p2 \o b \o s1 \o s2 : p1 \in P, p2 \in P, b \in B, s1 \in S, s2 \in S}
NameInputs ==
    LET B == {<<>>, <<"B","o">>, <<"B","o",",">>}
        W == {<<>>, <<" ","I","n","c">>, <<" ","I","n","c",".">>, <<" ","L","t","d">>,
              <<" ","G","o","l","d">>, <<" ","C","o","r","p">>,
              <<" ","H","o","l","d","i","n","g","s">>, <<" ">>}
        T == {<<>>, <<".">>, <<" ">>}
    IN  {None} \cup {b \o w1 \o w2 \o t : b \in B, w1 \in W, w2 \in W, t \in T}

InitNorm ==
    /\ variant \in Variants
    /\ norm_fn \in {"normalize_ticker", "normalize_name"}
    /\ \E x \in IF norm_fn = "normalize_ticker" THEN TickerInputs ELSE NameInputs :
          norm_calls = <<x>>
    /\ jsonFile = <<>>
    /\ cacheFile = Absent
    /\ ckptFile = Absent
    /\ outFile = Absent
    /\ pc = "idle"
    /\ args = [resume |-> FALSE, clear_cache |-> FALSE]
    /\ interrupted = FALSE
    /\ mainCalls = 0
    /\ cache = EmptyCache
    /\ checkpoint = EmptyCheckpoint
    /\ companies = <<>>
    /\ futures = NoFutures
    /\ goldstock_companies = <<>>
    /\ mappings = <<>>
    /\ i = 0
    /\ main_mappings = <<>>
    /\ saveFrom = "none"
    /\ runs = 0
    /\ prior = EmptyCheckpoint
    /\ sigAt = "none"
    /\ everCached = {}
    /\ known_mappings_arg = known_mappings

\* normalize_ticker is called on the last value: on the input, then on its
\* own result
NormalizeTickerCall ==
    /\ norm_fn = "normalize_ticker"
    /\ Len(norm_calls) < 3
    /\ norm_calls' = Append(norm_calls, normalize_ticker(variant, norm_calls[Len(norm_calls)]))
    /\ UNCHANGED << norm_fn, variant, jsonFile, known_mappings_arg, files, pc, args,
                    interrupted, mainCalls, cache, checkpoint, companies, futures,
                    goldstock_companies, mappings, i, main_mappings, saveFrom,
                    runs, prior, sigAt, everCached >>

\* normalize_name is called on the last value
NormalizeNameCall ==
    /\ norm_fn = "normalize_name"
    /\ Len(norm_calls) < 3
    /\ norm_calls' = Append(norm_calls, normalize_name(variant, norm_calls[Len(norm_calls)]))
    /\ UNCHANGED << norm_fn, variant, jsonFile, known_mappings_arg, files, pc, args,
                    interrupted, mainCalls, cache, checkpoint, companies, futures,
                    goldstock_companies, mappings, i, main_mappings, saveFrom,
                    runs, prior, sigAt, everCached >>

NextNorm == NormalizeTickerCall \/ NormalizeNameCall

SpecNorm == InitNorm /\ [][NextNorm]_vars

\* Exchange-qualified tickers: 'P:B', 'B.S' and 'P:B.S' for every prefix P
\* and suffix S of the variant's regular expressions and a few base symbols
\* of letters and digits, one of them spelled like a suffix
BaseSymbols == {<<"A","B">>, <<"a","1">>, <<"T","O">>}
Prefixed(P, B) == P \o <<":">> \o B
Suffixed(B, S) == B \o <<".">> \o S
QualifiedForms(P, B, S) == {Prefixed(P, B), Suffixed(B, S), Prefixed(P, Suffixed(B, S))}
QualifiedTickers(v) ==
    UNION {QualifiedForms(P, B, S) :
              P \in ExchangePrefixes(v), B \in BaseSymbols, S \in ExchangeSuffixes(v)}

InitQualified ==
    /\ variant \in Variants
    /\ norm_fn = "normalize_ticker"
    /\ \E x \in QualifiedTickers(variant) : norm_calls = <<x>>
    /\ jsonFile = <<>>
    /\ cacheFile = Absent
    /\ ckptFile = Absent
    /\ outFile = Absent
    /\ pc = "idle"
    /\ args = [resume |-> FALSE, clear_cache |-> FALSE]
    /\ interrupted = FALSE
    /\ mainCalls = 0
    /\ cache = EmptyCache
    /\ checkpoint = EmptyCheckpoint
    /\ companies = <<>>
    /\ futures = NoFutures
    /\ goldstock_companies = <<>>
    /\ mappings = <<>>
    /\ i = 0
    /\ main_mappings = <<>>
    /\ saveFrom = "none"
    /\ runs = 0
    /\ prior = EmptyCheckpoint
    /\ sigAt = "none"
    /\ everCached = {}
    /\ known_mappings_arg = known_mappings

SpecQualified == InitQualified /\ [][NormalizeTickerCall]_vars

(***************************************************************************)
(* The fetch phase thread by thread: the statements of fetch_company_by_id *)
(* and of save_cache interleave                                            *)
(***************************************************************************)
MaxFetchId == 3
MaxThreads == 3
FetchIds == 1..MaxFetchId

\* The cache as an earlier run with a larger --max-id left it in the cache
\* file: n null entries for IDs outside the range of this run
Preloaded(n) == [k \in 101..(100 + n) |-> Null]

\* Two open(CACHE_FILE, 'w') were in use at once and wrote different
\* contents from their own offsets: the file is neither of them
Torn == [state |-> "torn"]

\* ThreadPoolExecutor(max_workers=w): a queued call is taken by one of the w
\* worker threads when that thread is idle; n calls are being run.  The
\* first definition takes a call whenever one is queued, a fault that C30
\* is to detect.
WorkerIdle_unbounded(n, w) == TRUE
WorkerIdle(n, w) == n < w

InFlight == {id \in FetchIds : futures[id].st \in {"running", "inserted", "saving", "dumping"}}
Queued == {id \in FetchIds : futures[id].st = "pending"}

InitFetch ==
    /\ variant \in Variants
    /\ \E n \in {48, 49}, hit \in BOOLEAN :
          cacheFile = Written(IF hit
                              THEN CachePut(Preloaded(n - 1), MaxFetchId,
                                            GoldstockCompany(variant, MaxFetchId, Site(MaxFetchId)))
                              ELSE Preloaded(n))
    /\ cache = load_cache(cacheFile)
    /\ \E w \in 1..MaxThreads :
          args = [resume |-> FALSE, clear_cache |-> FALSE, workers |-> w]
    /\ futures = [id \in FetchIds |-> [st |-> "pending"]]
    /\ pc = "fetch"
    /\ jsonFile = LongList
    /\ companies = LongList
    /\ ckptFile = Absent
    /\ outFile = Absent
    /\ interrupted = FALSE
    /\ mainCalls = 1
    /\ checkpoint = EmptyCheckpoint
    /\ goldstock_companies = <<>>
    /\ mappings = <<>>
    /\ i = 0
    /\ main_mappings = <<>>
    /\ saveFrom = "none"
    /\ runs = 1
    /\ prior = EmptyCheckpoint
    /\ sigAt = "none"
    /\ everCached = {}
    /\ known_mappings_arg = known_mappings
    /\ norm_fn = "none"
    /\ norm_calls = <<>>

\* A worker thread takes the next queued call and runs fetch_company_by_id
\* up to the network call; a key that is in the cache is answered from it.
ThreadBegin ==
    /\ Queued # {}
    /\ WorkerIdle(Cardinality(InFlight), args.workers)
    /\ LET id == CHOOSE x \in Queued : \A y \in Queued : x <= y
       IN  futures' = [futures EXCEPT ![id] =
                          IF id \in DOMAIN cache
                          THEN [st |-> "done", result |-> cache[id]]
                          ELSE [st |-> "running"]]
    /\ UNCHANGED << norm_fn, norm_calls, variant, jsonFile, known_mappings_arg, files,
                    pc, args, interrupted, mainCalls, cache, checkpoint, companies,
                    goldstock_companies, mappings, i, main_mappings, saveFrom,
                    runs, prior, sigAt, everCached >>

\* The network call returns and the thread runs to the assignment
\* self.matcher.cache[cache_key] = ...; the branches that test the size of
\* the cache have that test still before them.
ThreadInsert(id, ok) ==
    /\ futures[id].st = "running"
    /\ LET r == fetch_company_by_id(variant, id, ok)
       IN  /\ cache' = IF r.cached THEN CachePut(cache, id, r.result) ELSE cache
           /\ futures' = [futures EXCEPT ![id] =
                  [st |-> IF r.cached /\ r.flush THEN "inserted" ELSE "done",
                   result |-> r.result]]
    /\ UNCHANGED << norm_fn, norm_calls, variant, jsonFile, known_mappings_arg, files,
                    pc, args, interrupted, mainCalls, checkpoint, companies,
                    goldstock_companies, mappings, i, main_mappings, saveFrom,
                    runs, prior, sigAt, everCached >>

\* if len(self.matcher.cache) % 50 == 0: the size is read now, after any
\* number of inserts by the other threads
ThreadFlushCheck(id) ==
    /\ futures[id].st = "inserted"
    /\ futures' = [futures EXCEPT ![id].st =
                      IF Cardinality(DOMAIN cache) % CacheFlushEvery = 0
                      THEN "saving" ELSE "done"]
    /\ UNCHANGED << norm_fn, norm_calls, variant, jsonFile, known_mappings_arg, files,
                    pc, args, interrupted, mainCalls, cache, checkpoint, companies,
                    goldstock_companies, mappings, i, main_mappings, saveFrom,
                    runs, prior, sigAt, everCached >>

\* save_cache: cache_copy = dict(self.cache), then open(CACHE_FILE, 'w'),
\* which truncates the file whoever else has it open.  A thread that has the
\* file open with another content from then on shares the file with this
\* one (shared).
SaveCacheOpen(id) ==
    /\ futures[id].st = "saving"
    /\ LET others == {x \in FetchIds \ {id} :
                         futures[x].st = "dumping" /\ futures[x].cache_copy # cache}
       IN  futures' = [x \in FetchIds |->
               IF x = id
               THEN [st |-> "dumping", result |-> futures[id].result,
                     cache_copy |-> cache, shared |-> others # {}]
               ELSE IF x \in others THEN [futures[x] EXCEPT !.shared = TRUE]
               ELSE futures[x]]
    /\ cacheFile' = Truncated
    /\ UNCHANGED << norm_fn, norm_calls, variant, jsonFile, known_mappings_arg, ckptFile,
                    outFile, pc, args, interrupted, mainCalls, cache, checkpoint,
                    companies, goldstock_companies, mappings, i, main_mappings,
                    saveFrom, runs, prior, sigAt, everCached >>

\* save_cache: json.dump(cache_copy, f) and the close of the file.  The
\* writes of two threads that shared the file land in one file, each from
\* its own offset: what the file holds after the close is the content of
\* this thread or a mix of the two (mixed).
SaveCacheDump(id, mixed) ==
    /\ futures[id].st = "dumping"
    /\ mixed => futures[id].shared
    /\ cacheFile' = IF mixed THEN Torn ELSE Written(futures[id].cache_copy)
    /\ futures' = [futures EXCEPT ![id] = [st |-> "done", result |-> futures[id].result]]
    /\ UNCHANGED << norm_fn, norm_calls, variant, jsonFile, known_mappings_arg, ckptFile,
                    outFile, pc, args, interrupted, mainCalls, cache, checkpoint,
                    companies, goldstock_companies, mappings, i, main_mappings,
                    saveFrom, runs, prior, sigAt, everCached >>

\* One turn of `for future in as_completed(future_to_id)` with the flag
\* clear, with a result of None appended as well: a fault that C32 is to
\* detect
CollectCompleted_appends_none(id) ==
    /\ pc = "fetch"
    /\ futures[id].st = "done"
    /\ futures' = [futures EXCEPT ![id].st = "collected"]
    /\ goldstock_companies' = Append(goldstock_companies, futures[id].result)
    /\ pc' = IF \A x \in FetchIds \ {id} : futures[x].st = "collected"
             THEN "fetched" ELSE "fetch"
    /\ UNCHANGED << norm_fn, norm_calls, variant, jsonFile, known_mappings_arg, files,
                    args, interrupted, mainCalls, cache, checkpoint, companies,
                    mappings, i, main_mappings, saveFrom, runs, prior, sigAt,
                    everCached >>

\* One turn of `for future in as_completed(future_to_id)` with the flag
\* clear: the result of a call that has returned is appended if it is a
\* record; after the last one fetch_companies_parallel returns.
CollectCompleted(id) ==
    /\ pc = "fetch"
    /\ futures[id].st = "done"
    /\ futures' = [futures EXCEPT ![id].st = "collected"]
    /\ goldstock_companies' =
           IF futures[id].result = Null THEN goldstock_companies
           ELSE Append(goldstock_companies, futures[id].result)
    /\ pc' = IF \A x \in FetchIds \ {id} : futures[x].st = "collected"
             THEN "fetched" ELSE "fetch"
    /\ UNCHANGED << norm_fn, norm_calls, variant, jsonFile, known_mappings_arg, files,
                    args, interrupted, mainCalls, cache, checkpoint, companies,
                    mappings, i, main_mappings, saveFrom, runs, prior, sigAt,
                    everCached >>

NextFetch ==
    \/ ThreadBegin
    \/ \E id \in FetchIds, ok \in BOOLEAN : ThreadInsert(id, ok)
    \/ \E id \in FetchIds : ThreadFlushCheck(id)
    \/ \E id \in FetchIds : SaveCacheOpen(id)
    \/ \E id \in FetchIds, mixed \in BOOLEAN : SaveCacheDump(id, mixed)
    \/ \E id \in FetchIds : CollectCompleted(id)

SpecFetch == InitFetch /\ [][NextFetch]_vars

(***************************************************************************)
(* Properties                                                              *)
(***************************************************************************)
\* C1: a run started with --resume on a checkpoint with prior mappings P,
\* which resolves the remaining companies to N and completes without
\* interruption, writes the table P followed by N.
C1_ResumeTableIsPriorThenNew ==
    (pc = "done" /\ ~interrupted /\ args.resume /\ Len(prior.mappings) > 0)
        => outFile = Written(CsvRows(prior.mappings \o mappings))

\* C1: such a run exists, with companies left to resolve
C1_ResumeRunCompletes ==
    /\ pc = "done" /\ ~interrupted /\ args.resume
    /\ Len(prior.mappings) > 0 /\ Len(mappings) > 0

\* C2: a checkpoint file written during a run resumed with --resume still
\* holds every processed id of the checkpoint the run resumed from.
C2_CheckpointKeepsEarlierIds ==
    (args.resume /\ runs > 1 /\ ckptFile.state = "ok")
        => Range(prior.processed_ids) \subseteq Range(ckptFile.data.processed_ids)

\* C2: a resumed run saves its checkpoint over one that held processed ids
C2_ResumedRunSaves ==
    /\ args.resume /\ runs > 1 /\ Len(prior.processed_ids) > 0
    /\ ckptFile.state = "ok" /\ ckptFile.data # prior

\* C3: a run started with --resume whose checkpoint holds the id of every
\* company, with records fetched and no interruption, resolves nothing,
\* completes normally and writes the table of the checkpoint's mappings.
C3_ResumeWithAllProcessedIsIdentity ==
    (/\ args.resume /\ Len(jsonFile) > 0
     /\ \A k \in 1..Len(jsonFile) : jsonFile[k].company_id \in Range(prior.processed_ids)
     /\ Len(goldstock_companies) > 0 /\ ~interrupted
     /\ pc \in TerminalPcs \ {"killed"})
        => /\ pc = "done"
           /\ Len(mappings) = 0
           /\ outFile = Written(CsvRows(prior.mappings))

\* C3: such a run exists and completes
C3_ResumeWithAllProcessedCompletes ==
    /\ args.resume /\ Len(jsonFile) > 0
    /\ \A k \in 1..Len(jsonFile) : jsonFile[k].company_id \in Range(prior.processed_ids)
    /\ Len(goldstock_companies) > 0 /\ ~interrupted
    /\ pc = "done"

\* C4: at the head of every iteration of the resolution loop, at most 9 of
\* the outcomes produced so far are missing from the checkpoint file.
C4_AtMostNineUnsaved ==
    pc = "match"
        => Cardinality({k \in 1..Len(mappings) :
                          mappings[k].company_id
                              \notin Range(load_checkpoint(ckptFile).processed_ids)})
               <= CheckpointEvery - 1

\* C4: the loop has passed a periodic save: ten outcomes, all in the file
C4_PeriodicSaveDone ==
    /\ pc = "match" /\ Len(mappings) = CheckpointEvery /\ i < Len(companies)
    /\ ckptFile.state = "ok" /\ ckptFile.data.mappings = mappings

\* C5: when SIGINT arrives in the resolution loop after some outcomes were
\* produced, the resolution phase ends with the checkpoint file and the
\* table holding every outcome produced.
C5_InterruptInLoopFlushes ==
    (sigAt = "match" /\ Len(mappings) > 0 /\ pc \in {"matched", "exit0"})
        => /\ ckptFile.state = "ok"
           /\ ckptFile.data.mappings = mappings
           /\ outFile = Written(CsvRows(mappings))

\* C5: an interrupted loop that did flush, short of the end of the list
C5_InterruptedLoopFlushed ==
    /\ sigAt = "match" /\ pc = "matched"
    /\ Len(mappings) > 0 /\ i < Len(companies)
    /\ ckptFile.state = "ok" /\ ckptFile.data.mappings = mappings

\* C6: a process that received SIGINT in the fetch phase or in the
\* resolution loop, with entries in its cache, ends without an exception,
\* with the cache, the checkpoint and the table on disk as it holds them in
\* memory.
C6_InterruptPersistsAndExits ==
    (sigAt \in {"fetch", "match"} /\ DOMAIN cache # {}
     /\ pc \in TerminalPcs \ {"killed"})
        => /\ pc # "raised"
           /\ cacheFile = Written(cache)
           /\ ckptFile = Written(checkpoint)
           /\ outFile.state = "ok"

\* C6: a process that received SIGINT in the fetch phase has ended
C6_InterruptedInFetchEnded ==
    sigAt = "fetch" /\ pc \in TerminalPcs \ {"killed"} /\ DOMAIN cache # {}

\* C7: when main reaches its end and the flag was never set, the checkpoint
\* file does not exist.
C7_CleanCompletionRemovesCheckpoint ==
    (pc = "done" /\ ~interrupted) => ckptFile = Absent

\* C7: a clean completion of a run that found a checkpoint at its start
C7_CleanCompletionAfterResume ==
    pc = "done" /\ ~interrupted /\ args.resume /\ Len(prior.processed_ids) > 0

\* C8: a process that died leaves the checkpoint file absent or complete,
\* never truncated.
C8_CheckpointSaveIsAtomic ==
    pc = "killed" => ckptFile.state # "truncated"

\* C8: a process died during save_checkpoint
C8_DiedDuringSave ==
    pc = "killed" /\ saveFrom # "none"

\* C9: in matcher.checkpoint and in every complete checkpoint file, the set
\* of processed_ids is the set of company_id values of the mappings.
C9_ProcessedIdsAreMappingIds ==
    /\ Range(checkpoint.processed_ids)
           = {checkpoint.mappings[k].company_id : k \in 1..Len(checkpoint.mappings)}
    /\ ckptFile.state = "ok"
           => Range(ckptFile.data.processed_ids)
                  = {ckptFile.data.mappings[k].company_id :
                         k \in 1..Len(ckptFile.data.mappings)}

\* C9: a checkpoint was saved over a loaded one, with mappings in both
C9_SavedOverLoaded ==
    /\ Len(prior.mappings) > 0 /\ ckptFile.state = "ok"
    /\ Len(ckptFile.data.mappings) > 0 /\ ckptFile.data # prior

\* C10: no network call is under way for an external ID that the cache has
\* held an entry for, in this process or in an earlier one that left the
\* cache file to it.
C10_CachedIdNotFetchedAgain ==
    \A id \in GoldstockIds : futures[id].st = "running" => id \notin everCached

\* C10: a later process answers a fetch from the cache file, one of them a
\* null entry
C10_AnsweredFromCacheFile ==
    /\ runs > 1 /\ pc = "fetch"
    /\ \E id \in GoldstockIds :
          /\ id \in DOMAIN load_cache(cacheFile)
          /\ load_cache(cacheFile)[id] = Null
          /\ futures[id].st = "done"

\* C11: when a run completes, every entry that is in the in-memory cache is
\* in the cache file, with the same value.
C11_CacheFlushedAtRunEnd ==
    (pc = "done" /\ ~interrupted)
        => \A id \in DOMAIN cache :
              /\ id \in DOMAIN load_cache(cacheFile)
              /\ load_cache(cacheFile)[id] = cache[id]

\* C11: a run that inserted cache entries has completed with the cache on
\* disk
C11_RunEndedWithCacheOnDisk ==
    /\ pc = "done" /\ ~interrupted /\ runs = 1
    /\ DOMAIN cache # {} /\ cacheFile = Written(cache)

C13_NoFetchStartsAfterFlagSeen ==
    [][pc = "fetch_exit"
          => \A id \in GoldstockIds :
                futures[id].st = "pending" => futures'[id].st # "running"]_vars

\* C13: the orchestrator has returned after an interruption of the fetch
\* phase, and the record of a fetch that was done is not among those it
\* returned
C13_ReturnedWithoutDoneRecord ==
    /\ pc = "fetched" /\ interrupted /\ sigAt = "fetch"
    /\ \E id \in GoldstockIds :
          /\ futures[id].st = "done" /\ futures[id].result # Null
          /\ \A k \in 1..Len(goldstock_companies) :
                goldstock_companies[k] # futures[id].result

\* The outcomes of perform_matching: mappings[k] is the Mapping of
\* companies[k].  What the lookups of the code hold for that company:
HasOverride(k) == companies[k].company_id \in DOMAIN known_mappings_arg
NormTicker(k) == normalize_ticker(variant, companies[k].tsx_code)
NormName(k) == normalize_name(variant, companies[k].company_name)
InTickerIndex(k) ==
    /\ Truthy(NormTicker(k))
    /\ \E j \in 1..Len(goldstock_companies) :
          NormTicker(k) \in TickerKeys(variant, goldstock_companies[j])
InNameIndex(k) ==
    \E j \in 1..Len(goldstock_companies) :
        NormName(k) \in NameKeys(variant, goldstock_companies[j])
\* the best fuzzy score of the normalized name against the normalized names
\* of the records, whatever the floor
BestFuzzy(k) ==
    extractOne(NormName(k),
               [j \in 1..Len(goldstock_companies) |->
                   normalize_name(variant, goldstock_companies[j].company_name)],
               0)
FuzzyConsulted(k) ==
    ~HasOverride(k) /\ ~InTickerIndex(k) /\ ~InNameIndex(k) /\ NormName(k) # <<>>
UnmatchedIffs(m) ==
    /\ (m.match_status = "unmatched") <=> (m.goldstock_id = None)
    /\ (m.goldstock_id = None) <=> (m.match_method = "none")
    /\ (m.match_method = "none") <=> (m.confidence_score = 0)
TableIsUsable ==
    \A id \in DOMAIN known_mappings_arg :
        /\ known_mappings_arg[id].confidence_score # 0
        /\ known_mappings_arg[id].goldstock_id # None

C15_KnownMappingWins ==
    \A k \in 1..Len(mappings) :
        HasOverride(k) =>
            LET e == known_mappings_arg[companies[k].company_id]
            IN  /\ mappings[k].match_method = "known_mapping"
                /\ mappings[k].match_status = "matched"
                /\ mappings[k].goldstock_id = e.goldstock_id
                /\ mappings[k].goldstock_name = e.goldstock_name
                /\ mappings[k].confidence_score = e.confidence_score

\* C15: a company with a known mapping whose ticker is in the ticker index
\* was resolved
C15_OverrideWithTickerInIndex ==
    /\ Len(mappings) = 1 /\ HasOverride(1) /\ InTickerIndex(1)

\* C16: for a company without a known mapping: when its normalized ticker
\* is non-empty and a key of gs_by_ticker, the Mapping is matched / 100 /
\* exact_ticker with the record under that key; otherwise, when its
\* normalized name is a key of gs_by_normalized_name, it is matched / 95 /
\* exact_name with the record under that key; otherwise it comes from the
\* fuzzy tier or is unmatched.
C16_TiersInOrder ==
    \A k \in 1..Len(mappings) :
        ~HasOverride(k) =>
            IF InTickerIndex(k)
            THEN /\ mappings[k].match_status = "matched"
                 /\ mappings[k].confidence_score = 100
                 /\ mappings[k].match_method = "exact_ticker"
                 /\ mappings[k].goldstock_id =
                        goldstock_companies[gs_by_ticker(variant, goldstock_companies,
                                                         NormTicker(k))].goldstock_id
            ELSE IF InNameIndex(k)
            THEN /\ mappings[k].match_status = "matched"
                 /\ mappings[k].confidence_score = 95
                 /\ mappings[k].match_method = "exact_name"
                 /\ mappings[k].goldstock_id =
                        goldstock_companies[gs_by_normalized_name(variant, goldstock_companies,
                                                                  NormName(k))].goldstock_id
            ELSE mappings[k].match_method \in {"fuzzy_name", "none"}

\* C16: a company whose ticker is a key of one record and whose name is a
\* key of another was resolved
C16_TickerAndNameHitDifferentRecords ==
    /\ Len(mappings) = 1 /\ ~HasOverride(1) /\ InTickerIndex(1) /\ InNameIndex(1)
    /\ gs_by_ticker(variant, goldstock_companies, NormTicker(1))
           # gs_by_normalized_name(variant, goldstock_companies, NormName(1))

\* C17: when the fuzzy tier is consulted, its best candidate is accepted
\* iff its score is at least 80 (strict variant) or 70 (extended variant);
\* below that the Mapping is unmatched, with goldstock_id None, confidence 0
\* and method none.
C17_FuzzyFloor ==
    \A k \in 1..Len(mappings) :
        FuzzyConsulted(k) =>
            LET best == BestFuzzy(k)
            IN  IF best.score >= (IF variant = 1 THEN 80 ELSE 70)
                THEN /\ mappings[k].match_method = "fuzzy_name"
                     /\ mappings[k].goldstock_id =
                            goldstock_companies[best.idx].goldstock_id
                ELSE /\ mappings[k].match_status = "unmatched"
                     /\ mappings[k].goldstock_id = None
                     /\ mappings[k].confidence_score = 0
                     /\ mappings[k].match_method = "none"

\* C17: the strict variant has rejected a candidate of a score that the
\* extended variant accepts
C17_RejectedBetweenTheFloors ==
    /\ Len(mappings) = 1 /\ FuzzyConsulted(1) /\ variant = 1
    /\ BestFuzzy(1).score \in 70..79
    /\ mappings[1].match_status = "unmatched"

\* C18: a Mapping of the fuzzy tier has the score of the candidate as its
\* confidence, and status matched when the score is at least 90 (strict
\* variant) or 85 (extended variant), manual otherwise.
C18_FuzzyStatusAndConfidence ==
    \A k \in 1..Len(mappings) :
        (mappings[k].match_status # "unmatched" /\ FuzzyConsulted(k)) =>
            LET best == BestFuzzy(k)
            IN  /\ mappings[k].match_method = "fuzzy_name"
                /\ mappings[k].confidence_score = best.score
                /\ mappings[k].match_status =
                       IF best.score >= (IF variant = 1 THEN 90 ELSE 85)
                       THEN "matched" ELSE "manual"

\* C18: the extended variant has accepted a candidate of a score from 85 to
\* 89 as matched
C18_MatchedBelowNinety ==
    /\ Len(mappings) = 1 /\ FuzzyConsulted(1) /\ variant = 2
    /\ BestFuzzy(1).score \in 85..89
    /\ mappings[1].match_status = "matched"

\* "Probe Gold Inc." without a known mapping and without a ticker, against
\* the one record "Probe Gold Corp", has been resolved
ProbeGoldResolved ==
    /\ Len(mappings) = 1 /\ ~HasOverride(1)
    /\ companies[1].company_name = <<"P","r","o","b","e"," ","G","o","l","d"," ","I","n","c",".">>
    /\ Len(goldstock_companies) = 1
    /\ goldstock_companies[1].company_name = <<"P","r","o","b","e"," ","G","o","l","d"," ","C","o","r","p">>

\* C19 as stated: "Probe Gold Inc." against the one record "Probe Gold Corp"
\* is decided by the fuzzy tier: unmatched in the strict variant, manual by
\* fuzzy_name in the extended variant.
C19_ProbeGoldDecidedByFuzzyTier ==
    ProbeGoldResolved =>
        IF variant = 1
        THEN mappings[1].match_status = "unmatched"
        ELSE /\ mappings[1].match_status = "manual"
             /\ mappings[1].match_method = "fuzzy_name"

\* C19: "Probe Gold Inc." against the one record "Probe Gold Corp" is
\* decided by the exact-name tier in both variants: matched, 95, exact_name.
C19_ProbeGoldDecidedByExactName ==
    ProbeGoldResolved =>
        /\ mappings[1].match_status = "matched"
        /\ mappings[1].confidence_score = 95
        /\ mappings[1].match_method = "exact_name"
        /\ mappings[1].goldstock_id = goldstock_companies[1].goldstock_id

\* C19: that company was resolved against that record, both names
\* normalizing to the same non-empty string
C19_ProbeGoldNamesNormalizeAlike ==
    /\ ProbeGoldResolved
    /\ NormName(1) # <<>>
    /\ NormName(1) = normalize_name(variant, goldstock_companies[1].company_name)

\* C20: a run that has loaded a checkpoint file or a cache file which is
\* absent or not parseable holds the empty checkpoint or the empty cache;
\* and with a checkpoint file like that, or one that is parseable without
\* the keys of a checkpoint, the run has not ended with an exception.
C20_MalformedStateIsNeverFatal ==
    pc # "idle" =>
        /\ ckptFile.state # "ok" => checkpoint = EmptyCheckpoint
        /\ cacheFile.state # "ok" => cache = EmptyCache
        /\ (ckptFile.state # "ok" \/ ckptFile = Written(CheckpointWithoutIds))
               => pc # "raised"

\* C20: a run started with --resume on a checkpoint file that is not
\* parseable holds the empty checkpoint and has gone on to the fetch phase
C20_UnparseableCheckpointLoaded ==
    /\ pc = "fetch" /\ args.resume /\ ckptFile = Truncated
    /\ checkpoint = EmptyCheckpoint /\ Len(companies) = Len(jsonFile)

C22_WriteFailureIsContained ==
    [][(pc = "ckpt_dump" /\ ckptFile' = Truncated)
           => (pc' \in {"match", "matched", "logos"} /\ mappings' = mappings)]_vars

\* C23: a process started with --clear-cache begins with an empty cache and
\* an empty checkpoint, and skips no company even when --resume is given
\* as well.
C23_ClearCacheStartsFromNothing ==
    [][(runs' = runs + 1 /\ args'.clear_cache)
           => /\ cache' = EmptyCache
              /\ checkpoint' = EmptyCheckpoint
              /\ companies' = jsonFile]_vars

\* C24: every key of gs_by_ticker maps to a record with a non-empty ticker
\* whose normalized ticker is the key; every key of gs_by_normalized_name
\* maps to a record whose name or one of whose aliases normalizes to the
\* key; no key is empty or None.
C24_IndexKeysBelongToTheirRecords ==
    /\ \A key \in TickerIndexKeys :
          LET r == goldstock_companies[gs_by_ticker(variant, goldstock_companies, key)]
          IN  /\ key # <<>> /\ key # None
              /\ Truthy(r.ticker)
              /\ normalize_ticker(variant, r.ticker) = key
    /\ \A key \in NameIndexKeys :
          LET r == goldstock_companies[gs_by_normalized_name(variant, goldstock_companies, key)]
          IN  /\ key # <<>> /\ key # None
              /\ \E n \in {r.company_name} \cup r.aliases :
                    normalize_name(variant, n) = key

\* C24: the loop has run on two records, one whose ticker and name give
\* no key at all and one entered under several name keys
C24_RecordWithoutKeysBesideOneWithMany ==
    /\ i = 1 /\ Len(goldstock_companies) = 2
    /\ \E k \in 1..2 :
          /\ Truthy(goldstock_companies[k].ticker)
          /\ TickerKeys(variant, goldstock_companies[k]) = {}
          /\ NameKeys(variant, goldstock_companies[k]) = {}
    /\ Cardinality(NameIndexKeys) >= 3
    /\ TickerIndexKeys # {}

\* C25: normalize_ticker returns None for None and for the empty string,
\* returns a string or None for every input, and applied to its own result
\* returns that result.
C25_NormalizeTickerIdempotent ==
    norm_fn = "normalize_ticker" =>
        /\ (Len(norm_calls) >= 2 /\ norm_calls[1] \in {None, <<>>}) => norm_calls[2] = None
        /\ Len(norm_calls) = 3 => norm_calls[3] = norm_calls[2]

\* C26: normalize_name returns a string, never None, the empty string for
\* None and for the empty string, and applied to its own result returns
\* that result.
C26_NormalizeNameIdempotent ==
    norm_fn = "normalize_name" =>
        /\ Len(norm_calls) >= 2 => norm_calls[2] # None
        /\ (Len(norm_calls) >= 2 /\ norm_calls[1] \in {None, <<>>}) => norm_calls[2] = <<>>
        /\ Len(norm_calls) = 3 => norm_calls[3] = norm_calls[2]

\* C27: when all fetches have returned and the cache has grown to 50
\* entries or beyond during the phase, some thread has flushed: the cache
\* file is no longer the one the run began with.
C27_NoMultipleOfFiftyWithoutFlush ==
    (/\ \A id \in FetchIds : futures[id].st = "done"
     /\ Cardinality(DOMAIN cache) >= CacheFlushEvery
     /\ Cardinality(DOMAIN cache \ FetchIds) < CacheFlushEvery)
        => cacheFile # Written([k \in DOMAIN cache \ FetchIds |-> cache[k]])

\* C28: whenever no thread has the cache file open, the file holds a
\* complete content: entries of the cache, those the run began with among
\* them, and nothing torn.
C28_FileIsOneSnapshot ==
    (\A id \in FetchIds : futures[id].st # "dumping")
        => /\ cacheFile.state = "ok"
           /\ DOMAIN cache \ FetchIds \subseteq DOMAIN cacheFile.data
           /\ \A k \in DOMAIN cacheFile.data :
                 k \in DOMAIN cache /\ cacheFile.data[k] = cache[k]

\* C29: at most one thread has the cache file open for writing.
C29_OneWriterAtATime ==
    Cardinality({id \in FetchIds : futures[id].st = "dumping"}) <= 1

C31_CacheHitHasNoEffect ==
    [][\A id \in GoldstockIds :
          (/\ futures[id].st = "pending" /\ id \in DOMAIN cache
           /\ futures'[id].st \notin {"pending", "cancelled", "none"})
              => /\ futures'[id] = [st |-> "done", result |-> cache[id]]
                 /\ cache' = cache
                 /\ cacheFile' = cacheFile]_vars

\* C31: in one fetch phase a record and a null entry have been answered
\* from the cache that was loaded from the cache file
C31_RecordAndNullAnsweredFromCache ==
    /\ runs > 1 /\ pc = "fetch"
    /\ cache = load_cache(cacheFile)
    /\ \E a, b \in DOMAIN cache :
          /\ cache[a] = Null /\ cache[b] # Null
          /\ futures[a] = [st |-> "done", result |-> Null]
          /\ futures[b] = [st |-> "done", result |-> cache[b]]

\* C32: when fetch_companies_parallel returns, the list holds the record
\* of every ID of the range whose call returned a record, once each, and
\* nothing else, and every record of the list is the cache entry of an ID
\* of the range.
C32_OneRecordPerFoundId ==
    pc = "fetched" =>
        LET found == {id \in FetchIds : futures[id].result # Null}
        IN  /\ Len(goldstock_companies) = Cardinality(found)
            /\ \A id \in found :
                  \E k \in 1..Len(goldstock_companies) :
                     goldstock_companies[k] = futures[id].result
            /\ \A k \in 1..Len(goldstock_companies) :
                  /\ goldstock_companies[k] # Null
                  /\ \E id \in FetchIds \cap DOMAIN cache :
                        cache[id] = goldstock_companies[k]

\* C32: the phase has returned two records, one answered from the cache
\* and one fetched, beside an ID without a record
C32_ReturnedCachedAndFetchedRecord ==
    /\ pc = "fetched" /\ Len(goldstock_companies) = 2
    /\ MaxFetchId \in DOMAIN load_cache(cacheFile)
    /\ \E id \in FetchIds : futures[id].result = Null

\* C33: while the flag is set and the loop has resolved no company, no
\* step of the process changes a table or a checkpoint that an earlier
\* run wrote with at least one mapping in it.
C33_InterruptBeforeLoopKeepsFiles ==
    [][(interrupted /\ runs > 1 /\ runs' = runs /\ Len(mappings') = 0)
           => /\ (outFile.state = "ok" /\ Len(outFile.data) > 0)
                    => outFile' = outFile
              /\ (ckptFile.state = "ok" /\ Len(ckptFile.data.mappings) > 0)
                    => ckptFile' = ckptFile]_vars

\* the fuzzy score of the company at k against record j alone, and the
\* records that attain the greatest score
ScoreOf(k, j) ==
    extractOne(NormName(k),
               <<normalize_name(variant, goldstock_companies[j].company_name)>>,
               0).score
ScoresOf(k) == [j \in 1..Len(goldstock_companies) |-> ScoreOf(k, j)]
TopRecords(sc) == {j \in DOMAIN sc : \A x \in DOMAIN sc : sc[x] <= sc[j]}
FirstTop(sc) == CHOOSE j \in TopRecords(sc) : \A x \in TopRecords(sc) : j <= x
ChosenIsFirstTop(m, sc) ==
    /\ m.goldstock_id = goldstock_companies[FirstTop(sc)].goldstock_id
    /\ m.confidence_score = sc[FirstTop(sc)]
TieWithAndWithoutTicker(sc) ==
    /\ Cardinality(TopRecords(sc)) > 1
    /\ goldstock_companies[FirstTop(sc)].ticker = None
    /\ \E j \in TopRecords(sc) : goldstock_companies[j].ticker # None

\* C34: a Mapping of the fuzzy tier carries the record that comes first in
\* goldstock_companies among the records of greatest score, whether or not
\* that record has a ticker.
C34_FirstOfTheBestRecordsIsChosen ==
    \A k \in 1..Len(mappings) :
        mappings[k].match_method = "fuzzy_name"
            => ChosenIsFirstTop(mappings[k], ScoresOf(k))

\* C34: the fuzzy tier chose among records of equal score, of which the
\* first has no ticker and a later one has
C34_TieOfRecordWithAndWithoutTicker ==
    /\ Len(mappings) = 1 /\ mappings[1].match_method = "fuzzy_name"
    /\ TieWithAndWithoutTicker(ScoresOf(1))

\* the positions of the records entered under the ticker key, and under
\* the name key, of the company at k
TickerSharers(k) ==
    {j \in 1..Len(goldstock_companies) :
        NormTicker(k) \in TickerKeys(variant, goldstock_companies[j])}
NameSharers(k) ==
    {j \in 1..Len(goldstock_companies) :
        NormName(k) \in NameKeys(variant, goldstock_companies[j])}
Latest(S) == CHOOSE j \in S : \A x \in S : x <= j
CarriesRecord(m, gs) ==
    m.goldstock_id = gs.goldstock_id /\ m.goldstock_name = gs.company_name

\* C35: a Mapping of an exact tier carries the id and the name of the last
\* record of goldstock_companies that yields the key it was found under,
\* and the loop does not end in an exception.
C35_LaterRecordOwnsSharedKey ==
    /\ pc # "raised"
    /\ \A k \in 1..Len(mappings) :
          /\ mappings[k].match_method = "exact_ticker"
                => CarriesRecord(mappings[k], goldstock_companies[Latest(TickerSharers(k))])
          /\ mappings[k].match_method = "exact_name"
                => CarriesRecord(mappings[k], goldstock_companies[Latest(NameSharers(k))])

\* C35: one company was found under a ticker key that two records yield,
\* or under a name key that two records yield
C35_FoundUnderSharedKey ==
    /\ Len(mappings) = 1
    /\ \/ mappings[1].match_method = "exact_ticker" /\ Cardinality(TickerSharers(1)) = 2
       \/ mappings[1].match_method = "exact_name" /\ Cardinality(NameSharers(1)) = 2

\* m is an outcome for company c
OutcomeOf(m, c) ==
    /\ m.company_id = c.company_id
    /\ m.company_name = c.company_name
    /\ m.tsx_code = c.tsx_code

\* C36: in every state the list of mappings holds one outcome for each of
\* the first i companies, in the order of the list, i being the number of
\* iterations done; and when perform_matching has returned without the
\* flag set it holds one outcome for every company.
C36_MappingsFollowInputPrefix ==
    /\ Len(mappings) = i /\ i <= Len(companies)
    /\ \A k \in 1..Len(mappings) : OutcomeOf(mappings[k], companies[k])
    /\ (pc = "matched" /\ ~interrupted) => Len(mappings) = Len(companies)

\* C36: the loop has returned after an interruption with outcomes for some
\* of several companies
C36_InterruptedLoopLeftPrefix ==
    /\ pc = "matched" /\ interrupted
    /\ Len(mappings) > 0 /\ Len(mappings) < Len(companies)

\* C37: a process starts with the flag false, and no step of a process
\* whose flag is true makes it false.
C37_FlagIsMonotonic ==
    [][/\ runs' # runs => ~interrupted'
       /\ (runs' = runs /\ interrupted) => interrupted']_vars

\* C37: the flag set during the first call of main is still set in the
\* resolution loop of the second call
C37_FlagOutlivesFirstCall ==
    /\ variant = 1 /\ mainCalls = 2 /\ pc = "match"
    /\ interrupted /\ sigAt # "none"

\* C38: for every prefix P and suffix S of the variant and every base
\* symbol B, normalize_ticker called on 'P:B', 'B.S' or 'P:B.S' returns B
\* in upper case.
C38_QualifiedFormsShareOneKey ==
    \A P \in ExchangePrefixes(variant), B \in BaseSymbols, S \in ExchangeSuffixes(variant) :
        (Len(norm_calls) >= 2 /\ norm_calls[1] \in QualifiedForms(P, B, S))
            => norm_calls[2] = Upper(B)

\* the fetch phase has returned to main, or ended the process
FetchPhaseOver == pc \notin {"fetch", "fetch_unwind", "fetch_exit"}
\* the process has ended by completion, by the exit for no input, or by the
\* exit after an interruption; the strict variant ends after its second
\* call of main
RunEnded ==
    /\ pc \in {"done", "returned", "exit0", "exit1"}
    /\ (variant = 1 /\ pc \in {"done", "returned"}) => mainCalls = 2

\* C39: a process in the fetch phase eventually leaves it, a running
\* process eventually ends by completion, by the exit for no input or by
\* the exit after an interruption, and the loop never does more iterations
\* than there are companies.
C39_RunTerminates ==
    /\ (pc = "fetch") ~> FetchPhaseOver
    /\ Alive ~> RunEnded
    /\ [](i <= Len(companies))
====
